---- MODULE Spec2Model ----
(***************************************************************************)
(* A model of the SOCKS 6 server worker (serverworker.go) and of the relay *)
(* engine (utils.go).                                                      *)
(*                                                                         *)
(*   Spec       the handshake driver and the two stream entry points,     *)
(*              ServeStream and ServeMuxConn                               *)
(*   SpecRelay  relay and its two relayOneDirection pumps                  *)
(*   SpecReaper the three resource maps and ClearUnusedResource            *)
(*   SpecFn     the functions that map one input to one result:            *)
(*              ReplyVersionSpecificError, getReplyCode, ForwardICMP with  *)
(*              convertICMPError                                           *)
(***************************************************************************)
EXTENDS Integers, Sequences, FiniteSets, TLC

(***************************************************************************)
(* Bounds of the model                                                     *)
(***************************************************************************)
\* secondary streams accepted on one multiplexed connection
MaxSecondary == 1
\* largest initial-data length a request advertises
MaxInitLen == 2
\* session ids handed out by the authenticator are 1..MaxSession
MaxSession == 2
\* bytes a peer pushes into one relay direction
MaxBytes == 3
\* most bytes one Read of a relay pump returns
MaxChunk == 2
\* UDP association ids (and address pairs) the worker can hold
MaxAssoc == 2
\* backlog workers (bind addresses) the worker can hold
MaxBacklog == 1
\* largest ICMP code given to ForwardICMP
MaxIcmpCode == 4
\* local UDP addresses of associations, and source addresses in ICMP bodies
MaxAddr == 2
\* datagrams a SeqPacket source yields before NextDatagram fails
MaxDgram == 2

(***************************************************************************)
(* Protocol constants                                                      *)
(***************************************************************************)
CommandNoop == 0
CommandConnect == 1
CommandBind == 2
CommandUdpAssociate == 3

AuthenticationReplySuccess == 0
AuthenticationReplyFail == 1

OperationReplySuccess == 0
OperationReplyServerFailure == 1
OperationReplyNotAllowedByRule == 2
OperationReplyNetworkUnreachable == 3
OperationReplyHostUnreachable == 4
OperationReplyConnectionRefused == 5
OperationReplyTTLExpired == 6
OperationReplyCommandNotSupported == 7
OperationReplyAddressNotSupported == 8
OperationReplyTimeout == 9

\* the dispatch map NewServerWorker installs
CommandHandlers == {CommandNoop, CommandConnect, CommandBind, CommandUdpAssociate}

\* command codes a client puts in a request: a registered one and one that
\* has no handler
RequestCommands == {CommandConnect, 4}

\* first bytes a client that does not speak SOCKS 6 may send: SOCKS 5 and
\* the 'G' of an HTTP verb
MismatchVersions == {5, 71}

Streams == 0 .. MaxSecondary
SessionIDs == 1 .. MaxSession

VARIABLES
    cfg,        \* ServerWorker configuration: Rule set?, IgnoreFragmentedRequest
    mode,       \* "stream": ServeStream serves stream 0; "mux": ServeMuxConn
    muxPc,      \* position of ServeMuxConn's own goroutine
    muxClosed,  \* number of mux.Close() calls
    pc,         \* per stream: position of the goroutine serving it
    req,        \* per stream: the parsed request
    ar,         \* per stream: authn's current authentication result
    ret,        \* per stream: what handshakeStream returned (sc, cmd, authr)
    ev,         \* per stream: calls made and replies written, in order
    closes,     \* per stream: conn.Close() calls made by the worker
    herr,       \* per stream: the err handleRequestError is replying to
    dgPc,       \* the datagram goroutine of ServeMuxConn: "next" in NextDatagram, "none" not running
    panicked,   \* a goroutine hit a nil dereference: the process is gone
    \* ---- relay ----
    rpc,        \* relay: position of relay itself
    ctx,        \* relay: the caller's context, "live" or "cancelled"
    ctx2,       \* relay: the derived context ctx2
    rerr,       \* relay: the err variable, set by the watcher goroutine
    errCh,      \* relay: content of the buffered channel errCh
    errLog,     \* relay: every error sent into errCh so far, in order
    wpc,        \* relay: position of the watcher goroutine
    dpc,        \* relay: per direction, position of its relayOneDirection
    buf,        \* relay: per direction, buf[:nRead] of the last Read
    eRead,      \* relay: per direction, eRead of the last Read
    dret,       \* relay: per direction, what relayOneDirection returned
    srcLog,     \* relay: per direction, the bytes Read has returned so far
    dstLog,     \* relay: per direction, the bytes Write has accepted so far
    pool,       \* relay: buffers rented from and returned to BytesPool4k
    closed,     \* relay: per endpoint, number of Close() calls by relay
    relayRet,   \* relay: what relay returned
    \* ---- resource maps and the reaper ----
    backlogWorker,   \* s.backlogWorker: bind address -> worker (its alive flag)
    reservedUdpAddr, \* s.reservedUdpAddr: address pair -> association id, 0 absent
    udpAssociation,  \* s.udpAssociation: association id -> association
    reaperPc,        \* position of ClearUnusedResource
    reaperCtx,       \* the context given to ClearUnusedResource
    toVisit,         \* keys the running Range has still to visit
    curKey,          \* key of the dead entry the Range callback is about to Delete
    uaPair,          \* ua.pair of the association the callback is deleting
    deadAtTick,      \* entries dead at the last tick and dead ever since
    reaped,          \* association ids the reaper has deleted
    udpOpen,         \* association ids whose UDP socket is open
    \* ---- one call of a function ----
    fnPc,            \* "idle", "call" (about to run) or "done"
    fnCall,          \* the function called and its arguments
    fnOut,           \* what the call wrote, returned or delivered so far
    fnAssocs         \* s.udpAssociation as the running call finds it

serveVars == <<cfg, mode, muxPc, muxClosed, pc, req, ar, ret, ev, closes, herr, dgPc,
              panicked>>
relayVars == <<rpc, ctx, ctx2, rerr, errCh, errLog, wpc, dpc, buf, eRead, dret,
               srcLog, dstLog, pool, closed, relayRet>>
reaperVars == <<backlogWorker, reservedUdpAddr, udpAssociation, reaperPc, reaperCtx,
                toVisit, curKey, uaPair, deadAtTick, reaped, udpOpen>>
fnVars == <<fnPc, fnCall, fnOut, fnAssocs>>
vars == <<serveVars, relayVars, reaperVars, fnVars>>
\* what the actions of one subsystem leave alone
restOfServe == <<relayVars, reaperVars, fnVars>>
restOfRelay == <<serveVars, reaperVars, fnVars>>
restOfReaper == <<serveVars, relayVars, fnVars>>
restOfFn == <<serveVars, relayVars, reaperVars>>

(***************************************************************************)
(* Values                                                                  *)
(***************************************************************************)
\* *auth.ServerAuthenticationResult; nil |-> TRUE is the nil pointer
NilAuth == [nil |-> TRUE, Success |-> FALSE, Continue |-> FALSE, SessionID |-> 0]
\* (Continue marks a first stage that has not succeeded yet)
AuthResults ==
    {r \in [nil : {FALSE}, Success : BOOLEAN, Continue : BOOLEAN, SessionID : SessionIDs] :
        r.Continue => ~r.Success}

\* *message.Request as far as the worker looks at it.  initLen = -1: the
\* request carries no authentication-method-advertisement option.
NoRequest == [cmd |-> 0, initLen |-> -1, initData |-> << >>]
PlainRequests == [cmd : RequestCommands, initLen : {-1}, initData : {<< >>}]
\* the requests of the model: each command without initial data, and the
\* supported command with every advertised length of initial data
Requests ==
    PlainRequests \cup [cmd : {CommandConnect}, initLen : 0 .. MaxInitLen, initData : {<< >>}]

\* what a client puts on a fresh stream: a well-formed request (delivered in
\* one packet or split over two), a first byte of another protocol, a request
\* with an unknown address type, or anything else that does not parse.  How
\* the request is cut into packets is an input only of a worker whose
\* IgnoreFragmentedRequest is set: no other worker has code that sees it.
ClientInputs(ignoreFragmented) ==
    [kind : {"ok"}, frag : {FALSE}, req : Requests, ver : {6}]
    \cup [kind : {"ok"}, frag : IF ignoreFragmented THEN {TRUE} ELSE {},
          req : PlainRequests, ver : {6}]
    \cup [kind : {"version"}, frag : {FALSE}, req : {NoRequest}, ver : MismatchVersions]
    \cup [kind : {"atyp", "bad"}, frag : {FALSE}, req : {NoRequest}, ver : {6}]

\* what arrives on stream s: anything a client sends on the first stream and
\* on the first secondary stream of a multiplexed connection; on the further
\* secondary streams a request in one packet without initial data, or one
\* with an unknown address type
StreamInputs(s, ignoreFragmented) ==
    IF s <= 1 THEN ClientInputs(ignoreFragmented)
    ELSE {in \in ClientInputs(ignoreFragmented) :
            \/ in.kind = "ok" /\ ~in.frag /\ in.req \in PlainRequests
            \/ in.kind = "atyp"}

\* (sc, cmd, authr) as returned by handshakeStream; sc |-> FALSE is sc == nil
NoReturn == [sc |-> FALSE, cmd |-> 0, ar |-> NilAuth, initData |-> << >>]

\* no parse error is being replied to
NoErr == [kind |-> "none", ver |-> 0]

\* the bytes the client sends after the request: 1, 2, 3, ...
ClientBytes(n) == [i \in 1 .. n |-> i]

(***************************************************************************)
(* Pure parts of the handshake                                             *)
(***************************************************************************)
\* nt.NetBufferOnlyReader does not read across a packet boundary: a request
\* split over two packets does not parse through it
ParseRequestFrom(wrapped, in) ==
    IF wrapped /\ in.kind = "ok" /\ in.frag THEN "bad" ELSE in.kind

\* handshakeStream wraps the reader only on a stream with a prior AuthResult
WrapReaderNever(ignoreFragmented, prevAuth) == FALSE
WrapReader(ignoreFragmented, prevAuth) == ignoreFragmented /\ ~prevAuth.nil

\* Texts are the sequences of their bytes.
CRLF == <<13, 10>>

\* strings.Join(elems, sep)
RECURSIVE Join(_, _)
Join(elems, sep) ==
    IF Len(elems) = 0 THEN << >>
    ELSE IF Len(elems) = 1 THEN elems[1]
    ELSE elems[1] \o sep \o Join(Tail(elems), sep)

\* fmt.Sprintf("%d", n) for n >= 0
RECURSIVE Sprintf_d(_)
Sprintf_d(n) == IF n < 10 THEN <<48 + n>> ELSE Sprintf_d(n \div 10) \o <<48 + (n % 10)>>

\* "This is a SOCKS 6 proxy, not a HTTP proxy"
notHttpProxyMsg == <<84, 104, 105, 115, 32, 105, 115, 32, 97, 32, 83, 79, 67,
    75, 83, 32, 54, 32, 112, 114, 111, 120, 121, 44, 32, 110, 111, 116, 32,
    97, 32, 72, 84, 84, 80, 32, 112, 114, 111, 120, 121>>

\* "<!DOCTYPE html>"
httpDocLine1 == <<60, 33, 68, 79, 67, 84, 89, 80, 69, 32, 104, 116, 109, 108,
    62>>
\* "<html><head>"
httpDocLine2 == <<60, 104, 116, 109, 108, 62, 60, 104, 101, 97, 100, 62>>
\* "<title>500 Internal Server Error</title>"
httpDocLine3 == <<60, 116, 105, 116, 108, 101, 62, 53, 48, 48, 32, 73, 110,
    116, 101, 114, 110, 97, 108, 32, 83, 101, 114, 118, 101, 114, 32, 69, 114,
    114, 111, 114, 60, 47, 116, 105, 116, 108, 101, 62>>
\* "</head><body>"
httpDocLine4 == <<60, 47, 104, 101, 97, 100, 62, 60, 98, 111, 100, 121, 62>>
\* "<h1>500 Internal Server Error</h1>"
httpDocLine5 == <<60, 104, 49, 62, 53, 48, 48, 32, 73, 110, 116, 101, 114,
    110, 97, 108, 32, 83, 101, 114, 118, 101, 114, 32, 69, 114, 114, 111, 114,
    60, 47, 104, 49, 62>>
\* "<p>", "</p>" and "</body></html>"
httpDocP == <<60, 112, 62>>
httpDocEndP == <<60, 47, 112, 62>>
httpDocEnd == <<60, 47, 98, 111, 100, 121, 62, 60, 47, 104, 116, 109, 108, 62>>

\* lines 144-152
httpDoc ==
    Join(<<httpDocLine1, httpDocLine2, httpDocLine3, httpDocLine4, httpDocLine5,
           httpDocP \o notHttpProxyMsg \o httpDocEndP, httpDocEnd>>, CRLF)

\* "HTTP/1.0 500 Internal Server Error"
httpStatusLine == <<72, 84, 84, 80, 47, 49, 46, 48, 32, 53, 48, 48, 32, 73,
    110, 116, 101, 114, 110, 97, 108, 32, 83, 101, 114, 118, 101, 114, 32, 69,
    114, 114, 111, 114>>
\* "Proxy-Status: SOCKS6Server; error=proxy_configuration_error; details=\""
httpProxyStatus == <<80, 114, 111, 120, 121, 45, 83, 116, 97, 116, 117, 115,
    58, 32, 83, 79, 67, 75, 83, 54, 83, 101, 114, 118, 101, 114, 59, 32, 101,
    114, 114, 111, 114, 61, 112, 114, 111, 120, 121, 95, 99, 111, 110, 102,
    105, 103, 117, 114, 97, 116, 105, 111, 110, 95, 101, 114, 114, 111, 114,
    59, 32, 100, 101, 116, 97, 105, 108, 115, 61, 34>>
\* "Content-Type: text/html"
httpContentType == <<67, 111, 110, 116, 101, 110, 116, 45, 84, 121, 112, 101,
    58, 32, 116, 101, 120, 116, 47, 104, 116, 109, 108>>
\* "Content-Length: "
httpContentLength == <<67, 111, 110, 116, 101, 110, 116, 45, 76, 101, 110,
    103, 116, 104, 58, 32>>
\* "Connection: close"
httpConnection == <<67, 111, 110, 110, 101, 99, 116, 105, 111, 110, 58, 32,
    99, 108, 111, 115, 101>>

\* line 159: the length the Content-Length header announces
ContentLengthPlusCRLF(doc) == Len(doc) + Len(CRLF)
ContentLength(doc) == Len(doc)

\* lines 154-164
httpReply ==
    Join(<<httpStatusLine,
           httpProxyStatus \o notHttpProxyMsg \o <<34>>,
           httpContentType,
           httpContentLength \o Sprintf_d(ContentLength(httpDoc)),
           httpConnection,
           << >>,
           httpDoc>>, CRLF)

\* the first bytes the HTTP methods CONNECT, DELETE, GET, HEAD, OPTIONS,
\* POST/PUT/PATCH and TRACE start with, in both cases (line 180)
HttpFirstBytes == {99, 67, 100, 68, 103, 71, 104, 72, 111, 79, 112, 80, 116, 84}

\* lines 169-184: the one conn.Write of ReplyVersionSpecificError
VersionReply(ver) ==
    CASE ver = 4 -> <<0, 91>>
      [] ver = 5 -> <<5, 255>>
      [] ver = 6 -> <<6>>
      [] ver \in HttpFirstBytes -> httpReply
      [] OTHER -> <<6>>

\* common.NewCancellableDefer(conn.Close): the number of Close calls the
\* guard makes when handshakeStream returns
DeferCloseIgnoringCancel(cancelled) == 1
DeferClose(cancelled) == IF cancelled THEN 0 ELSE 1

\* The events of a stream are the calls the worker makes on it and for it.
\* A conn.Write whose result the worker ignores is the event of the reply; a
\* conn.Write whose error the worker checks (authn) is the event of the
\* reply when it succeeds and an AuthReplyErr event when it fails.
\* the client's well-formed request as it arrived: in 1 packet or in 2
RequestEv(in) == IF in.kind = "ok" THEN <<<<"Request", IF in.frag THEN 2 ELSE 1>>>> ELSE << >>

WriteAuthReply(type, ok) == IF ok THEN <<"AuthReply", type>> ELSE <<"AuthReplyErr", type>>

\* the err handleRequestError is called with, as an event: 2 a version
\* mismatch, 1 ErrAddressTypeNotSupport, 0 any other error
RequestErrorEv(kind) ==
    <<"RequestError", CASE kind = "version" -> 2 [] kind = "atyp" -> 1 [] OTHER -> 0>>

\* handleRequestError: the events it leaves; it closes the stream once on
\* every path (VersionErrorHandler closes by itself)
HandleRequestErrorOpReplyOnly(kind, ver) ==
    CASE kind = "version" -> <<RequestErrorEv(kind), <<"VersionReply", ver>>, <<"Close", 0>>>>
      [] kind = "atyp" -> <<RequestErrorEv(kind),
                            <<"OpReply", OperationReplyAddressNotSupported>>,
                            <<"Close", 0>>>>
      [] OTHER -> <<RequestErrorEv(kind), <<"Close", 0>>>>
HandleRequestError(kind, ver) ==
    CASE kind = "version" -> <<RequestErrorEv(kind), <<"VersionReply", ver>>, <<"Close", 0>>>>
      [] kind = "atyp" -> <<RequestErrorEv(kind),
                            <<"AuthReply", AuthenticationReplyFail>>,
                            <<"OpReply", OperationReplyAddressNotSupported>>,
                            <<"Close", 0>>>>
      [] OTHER -> <<RequestErrorEv(kind), <<"Close", 0>>>>

\* number of events of one kind on a stream (any argument)
CountKind(log, kind) == Cardinality({i \in 1 .. Len(log) : log[i][1] = kind})

Has(log, e) == \E i \in 1 .. Len(log) : log[i] = e
HasKind(log, kind) == \E i \in 1 .. Len(log) : log[i][1] = kind
\* position of the first event e, 0 when there is none
First(log, e) ==
    LET at == {i \in 1 .. Len(log) : log[i] = e} IN
    IF at = {} THEN 0 ELSE CHOOSE i \in at : \A j \in at : i <= j
FirstKind(log, kind) ==
    LET at == {i \in 1 .. Len(log) : log[i][1] = kind} IN
    IF at = {} THEN 0 ELSE CHOOSE i \in at : \A j \in at : i <= j

(***************************************************************************)
(* The handshake driver: handshakeStream, handleRequestError, authn        *)
(***************************************************************************)
\* the AuthResult handed to handshakeStream: auth0 on a secondary stream
PrevAuthNever(s) == NilAuth
PrevAuth(s) == IF mode = "mux" /\ s > 0 THEN ret[0].ar ELSE NilAuth

\* ServeMuxConn lines 504-506 in a secondary stream's goroutine, straight
\* after its handshake returned (sc, cmd) and logged events: sc.MuxConn = mux
\* dereferences sc, nil or not, and the handler of cmd is called
MuxSecondaryDispatch(s, sc, cmd, events) ==
    IF ~sc
    THEN /\ panicked' = TRUE
         /\ ev' = [ev EXCEPT ![s] = @ \o events]
         /\ pc' = [pc EXCEPT ![s] = "hsret"]
    ELSE /\ ev' = [ev EXCEPT ![s] = @ \o events \o <<<<"Handler", cmd>>>>]
         /\ pc' = [pc EXCEPT ![s] = "handler"]
         /\ UNCHANGED panicked

\* the caller of handshakeStream resumes with (sc, cmd): a secondary
\* stream's goroutine goes straight on to its dispatch, ServeStream and the
\* first stream of ServeMuxConn are at their own next step
Resume(s, sc, cmd, events) ==
    IF mode = "mux" /\ s > 0
    THEN MuxSecondaryDispatch(s, sc, cmd, events)
    ELSE /\ ev' = [ev EXCEPT ![s] = @ \o events]
         /\ pc' = [pc EXCEPT ![s] = "hsret"]
         /\ UNCHANGED panicked

\* handshakeStream returns (sc, cmd, authr): the deferred guard runs, the
\* locals req and authr2 are gone, the caller resumes
HandshakeReturn(s, sc, cmd, a, idata, cancelled, events) ==
    /\ ret' = [ret EXCEPT ![s] = [sc |-> sc, cmd |-> cmd, ar |-> a, initData |-> idata]]
    /\ req' = [req EXCEPT ![s] = NoRequest]
    /\ ar' = [ar EXCEPT ![s] = NilAuth]
    /\ closes' = [closes EXCEPT ![s] = @ + DeferClose(cancelled)]
    /\ UNCHANGED herr
    /\ Resume(s, sc, cmd, events \o
                 (IF DeferClose(cancelled) = 1 THEN <<<<"Close", 0>>>> ELSE << >>))

\* handshakeStream goes on to its next step
HandshakeStep(s, next, r, a, events) ==
    /\ pc' = [pc EXCEPT ![s] = next]
    /\ req' = [req EXCEPT ![s] = r]
    /\ ar' = [ar EXCEPT ![s] = a]
    /\ ev' = [ev EXCEPT ![s] = @ \o events]
    /\ UNCHANGED <<ret, closes, herr, panicked>>

\* where handshakeStream goes after the request and its initial data are read
AfterRequest(s) == IF PrevAuth(s).nil THEN "authn" ELSE "rule"

\* lines 214-231: parse the request; on error Cancel the guard and let
\* handleRequestError reply and close
ParseRequest(s) ==
    /\ ~panicked
    /\ pc[s] = "parse"
    /\ \E in \in StreamInputs(s, cfg.ignoreFragmented) :
        LET kind == ParseRequestFrom(WrapReader(cfg.ignoreFragmented, PrevAuth(s)), in) IN
        IF kind = "ok"
        THEN HandshakeStep(s, IF in.req.initLen >= 0 THEN "initdata" ELSE AfterRequest(s),
                           in.req, ar[s], RequestEv(in))
        ELSE LET replies == HandleRequestError(kind, in.ver) IN
             IF Len(replies) = 2
             THEN /\ ret' = [ret EXCEPT ![s] = NoReturn]
                  /\ closes' = [closes EXCEPT ![s] = @ + 1 + DeferClose(TRUE)]
                  /\ Resume(s, FALSE, 0, RequestEv(in) \o replies)
                  /\ UNCHANGED <<req, ar, herr>>
             ELSE /\ herr' = [herr EXCEPT ![s] = [kind |-> kind, ver |-> in.ver]]
                  /\ ev' = [ev EXCEPT ![s] = @ \o RequestEv(in) \o <<replies[1]>>]
                  /\ pc' = [pc EXCEPT ![s] = "reqerr"]
                  /\ UNCHANGED <<req, ar, ret, closes, panicked>>
    /\ UNCHANGED <<cfg, mode, muxPc, muxClosed, dgPc>>
    /\ UNCHANGED restOfServe

\* lines 169-184 and 307-308: the next conn.Write of the reply to a request
\* that did not parse; after the last one the stream is closed and
\* handshakeStream returns (nil, 0, nil), its guard cancelled
WriteErrorReply(s) ==
    /\ ~panicked
    /\ pc[s] = "reqerr"
    /\ LET replies == HandleRequestError(herr[s].kind, herr[s].ver)
           written == Len(ev[s]) - FirstKind(ev[s], "RequestError") + 1
       IN  IF written + 2 < Len(replies)
           THEN /\ ev' = [ev EXCEPT ![s] = Append(@, replies[written + 1])]
                /\ UNCHANGED <<pc, ret, closes, herr, panicked>>
           ELSE /\ ret' = [ret EXCEPT ![s] = NoReturn]
                /\ closes' = [closes EXCEPT ![s] = @ + 1 + DeferClose(TRUE)]
                /\ herr' = [herr EXCEPT ![s] = NoErr]
                /\ Resume(s, FALSE, 0, SubSeq(replies, written + 1, Len(replies)))
    /\ UNCHANGED <<cfg, mode, muxPc, muxClosed, dgPc, req, ar>>
    /\ UNCHANGED restOfServe

\* line 237: what io.ReadFull(conn, initData) leaves in initData when the
\* stream holds avail >= n further bytes
ReadAll(avail, n) == ClientBytes(avail)
ReadFull(avail, n) == SubSeq(ClientBytes(avail), 1, n)

\* lines 233-241: io.ReadFull of the advertised initial data; the client has
\* sent avail more bytes when the read ends
ReadInitData(s) ==
    /\ ~panicked
    /\ pc[s] = "initdata"
    /\ \E avail \in 0 .. MaxInitLen :
        IF avail < req[s].initLen
        THEN HandshakeReturn(s, FALSE, 0, NilAuth, << >>, FALSE,
                             <<<<"ReadFullErr", req[s].initLen>>>>)
        ELSE HandshakeStep(s, AfterRequest(s),
                           [req[s] EXCEPT !.initData = ReadFull(avail, req[s].initLen)],
                           ar[s], <<<<"ReadFull", req[s].initLen>>>>)
    /\ UNCHANGED <<cfg, mode, muxPc, muxClosed, dgPc>>
    /\ UNCHANGED restOfServe

\* authn line 322: the authenticator's first stage
Authenticate(s) ==
    /\ ~panicked
    /\ pc[s] = "authn"
    /\ \E result1 \in AuthResults :
        HandshakeStep(s, "authw1", req[s], result1, <<<<"Authenticate", 0>>>>)
    /\ UNCHANGED <<cfg, mode, muxPc, muxClosed, dgPc>>
    /\ UNCHANGED restOfServe

\* lines 247-253: what authn returned lets the handshake go on
AuthnFailOpen(a) == ~a.nil
AuthnSucceeded(a) == ~a.nil /\ a.Success

\* authn returned a to handshakeStream (lines 245-257): go on when it is a
\* success, return (nil, 0, nil) otherwise
AuthnReturn(s, a, events) ==
    IF AuthnSucceeded(a)
    THEN HandshakeStep(s, "rule", req[s], a, events)
    ELSE HandshakeReturn(s, FALSE, 0, NilAuth, << >>, FALSE, events)

\* authn lines 324-347: the reply to the first stage
WriteAuthReply1(s) ==
    /\ ~panicked
    /\ pc[s] = "authw1"
    /\ \E ok \in BOOLEAN :
        LET result1 == ar[s] IN
        IF result1.Success
        THEN AuthnReturn(s, IF ok THEN result1 ELSE NilAuth,
                         <<WriteAuthReply(AuthenticationReplySuccess, ok)>>)
        ELSE IF ~result1.Continue
        THEN AuthnReturn(s, IF ok THEN result1 ELSE NilAuth,
                         <<WriteAuthReply(AuthenticationReplyFail, ok)>>)
        ELSE IF ok
        THEN HandshakeStep(s, "auth2", req[s], result1,
                           <<WriteAuthReply(AuthenticationReplyFail, TRUE)>>)
        ELSE AuthnReturn(s, NilAuth, <<WriteAuthReply(AuthenticationReplyFail, FALSE)>>)
    /\ UNCHANGED <<cfg, mode, muxPc, muxClosed, dgPc>>
    /\ UNCHANGED restOfServe

\* authn line 351: the second stage; it fails with an error (NilAuth here)
\* or gives result2
ContinueAuthenticate(s) ==
    /\ ~panicked
    /\ pc[s] = "auth2"
    /\ \E result2 \in AuthResults \cup {NilAuth} :
        HandshakeStep(s, "authw2", req[s], result2, <<<<"ContinueAuthenticate", 0>>>>)
    /\ UNCHANGED <<cfg, mode, muxPc, muxClosed, dgPc>>
    /\ UNCHANGED restOfServe

\* authn lines 358-363: the type of the final reply to result2
FinalReplyAlwaysSuccess(result2) == AuthenticationReplySuccess
FinalReplyType(result2) ==
    IF result2.Success THEN AuthenticationReplySuccess ELSE AuthenticationReplyFail

\* authn lines 352-370: the final reply of a two-stage authentication
WriteAuthReply2(s) ==
    /\ ~panicked
    /\ pc[s] = "authw2"
    /\ \E ok \in BOOLEAN :
        LET result2 == ar[s] IN
        IF result2.nil
        THEN /\ ok
             /\ AuthnReturn(s, NilAuth, <<<<"AuthReply", AuthenticationReplyFail>>>>)
        ELSE AuthnReturn(s, IF ok THEN result2 ELSE NilAuth,
                         <<WriteAuthReply(FinalReplyType(result2), ok)>>)
    /\ UNCHANGED <<cfg, mode, muxPc, muxClosed, dgPc>>
    /\ UNCHANGED restOfServe

\* the AuthResult handshakeStream works with after line 257
AuthResult(s) == IF PrevAuth(s).nil THEN ar[s] ELSE PrevAuth(s)

\* line 278: the lookup in the dispatch map
CommandAlwaysSupported(cmd) == TRUE
CommandSupported(cmd) == cmd \in CommandHandlers

\* lines 277-288: look the command up; hand the stream over when it is there
CheckCommand(s, events) ==
    IF CommandSupported(req[s].cmd)
    THEN HandshakeReturn(s, TRUE, req[s].cmd, AuthResult(s), req[s].initData, TRUE, events)
    ELSE HandshakeReturn(s, FALSE, req[s].cmd, AuthResult(s), << >>, FALSE,
                         events \o <<<<"OpReply", OperationReplyCommandNotSupported>>>>)

\* lines 259-288: build the SocksConn and ask the rule when there is one;
\* a request the rule rejects, or one it allows whose command has no
\* handler, is next answered by a conn.Write; any other goes on to the
\* lookup of its command in the same step
ApplyRule(s) ==
    /\ ~panicked
    /\ pc[s] = "rule"
    /\ IF cfg.rule
       THEN \E allow \in BOOLEAN :
            IF ~allow
            THEN HandshakeStep(s, "rulew", req[s], ar[s], <<<<"Rule", 0>>>>)
            ELSE IF CommandSupported(req[s].cmd)
            THEN CheckCommand(s, <<<<"Rule", 1>>>>)
            ELSE HandshakeStep(s, "cmdw", req[s], ar[s], <<<<"Rule", 1>>>>)
       ELSE CheckCommand(s, << >>)
    /\ UNCHANGED <<cfg, mode, muxPc, muxClosed, dgPc>>
    /\ UNCHANGED restOfServe

\* lines 273-274 and 281-282, after the rule was called: the conn.Write of
\* the operation reply, then the return of (nil, cmd, authResult)
WriteOpReply(s) ==
    /\ ~panicked
    /\ pc[s] \in {"rulew", "cmdw"}
    /\ IF pc[s] = "rulew"
       THEN HandshakeReturn(s, FALSE, req[s].cmd, AuthResult(s), << >>, FALSE,
                            <<<<"OpReply", OperationReplyNotAllowedByRule>>>>)
       ELSE CheckCommand(s, << >>)
    /\ UNCHANGED <<cfg, mode, muxPc, muxClosed, dgPc>>
    /\ UNCHANGED restOfServe

(***************************************************************************)
(* The entry points: ServeStream and ServeMuxConn, and the command handler *)
(***************************************************************************)
\* ServeStream lines 193-199, after handshakeStream returned
ServeStreamDispatch ==
    /\ ~panicked
    /\ mode = "stream"
    /\ pc[0] = "hsret"
    /\ IF ret[0].ar.nil \/ ~ret[0].sc \/ ~ret[0].ar.Success
       THEN /\ closes' = [closes EXCEPT ![0] = @ + 1]
            /\ ev' = [ev EXCEPT ![0] = Append(@, <<"Close", 0>>)]
            /\ pc' = [pc EXCEPT ![0] = "done"]
       ELSE /\ ev' = [ev EXCEPT ![0] = Append(@, <<"Handler", ret[0].cmd>>)]
            /\ pc' = [pc EXCEPT ![0] = "handler"]
            /\ UNCHANGED closes
    /\ UNCHANGED <<cfg, mode, muxPc, muxClosed, dgPc, herr, req, ar, ret, panicked>>
    /\ UNCHANGED restOfServe

\* the events of a handler's return in the goroutine that called it:
\* ServeStream's deferred SessionConnClose runs then, ServeMuxConn's handler
\* goroutines have nothing deferred
AfterHandler(s) ==
    IF mode = "stream"
    THEN <<<<"HandlerReturn", ret[s].cmd>>, <<"SessionConnClose", ret[s].ar.SessionID>>>>
    ELSE <<<<"HandlerReturn", ret[s].cmd>>>>

\* a command handler runs to its end (it owns the stream and closes it)
HandlerReturn(s) ==
    /\ ~panicked
    /\ pc[s] = "handler"
    /\ ev' = [ev EXCEPT ![s] = @ \o AfterHandler(s)]
    /\ pc' = [pc EXCEPT ![s] = "done"]
    /\ UNCHANGED <<cfg, mode, muxPc, muxClosed, dgPc, herr, req, ar, ret, closes, panicked>>
    /\ UNCHANGED restOfServe

\* ServeMuxConn lines 472-476: accept the first stream
MuxAcceptFirst ==
    /\ ~panicked
    /\ mode = "mux"
    /\ muxPc = "accept0"
    /\ \E ok \in BOOLEAN :
        IF ok
        THEN /\ pc' = [pc EXCEPT ![0] = "parse"]
             /\ muxPc' = "hs0"
             /\ UNCHANGED muxClosed
        ELSE /\ muxPc' = "returned"
             /\ muxClosed' = muxClosed + 1
             /\ UNCHANGED pc
    /\ UNCHANGED <<cfg, mode, dgPc, herr, req, ar, ret, ev, closes, panicked>>
    /\ UNCHANGED restOfServe

\* ServeMuxConn lines 477-496, after the first handshake returned:
\* sc0.MuxConn = mux dereferences sc0, nil or not; the deferred
\* SessionConnClose and mux.Close run while the panic unwinds.  With the
\* first handler started, a mux that is a nt.SeqPacket gets its datagram
\* goroutine
MuxFirstDispatch ==
    /\ ~panicked
    /\ mode = "mux"
    /\ muxPc = "hs0"
    /\ pc[0] = "hsret"
    /\ IF ret[0].ar.nil \/ ~ret[0].ar.Success
       THEN /\ muxPc' = "returned"
            /\ muxClosed' = muxClosed + 1
            /\ pc' = [pc EXCEPT ![0] = "done"]
            /\ UNCHANGED <<ev, dgPc, panicked>>
       ELSE IF ~ret[0].sc
       THEN /\ panicked' = TRUE
            /\ ev' = [ev EXCEPT ![0] = Append(@, <<"SessionConnClose", ret[0].ar.SessionID>>)]
            /\ muxClosed' = muxClosed + 1
            /\ muxPc' = "returned"
            /\ UNCHANGED <<pc, dgPc>>
       ELSE /\ ev' = [ev EXCEPT ![0] = Append(@, <<"Handler", ret[0].cmd>>)]
            /\ pc' = [pc EXCEPT ![0] = "handler"]
            /\ muxPc' = "loop"
            /\ \E seqPacket \in BOOLEAN : dgPc' = IF seqPacket THEN "next" ELSE "none"
            /\ UNCHANGED <<muxClosed, panicked>>
    /\ UNCHANGED <<cfg, mode, herr, req, ar, ret, closes>>
    /\ UNCHANGED restOfServe

\* ServeMuxConn lines 497-508: accept one more stream and serve it in its
\* own goroutine, or return on an accept error (deferred SessionConnClose
\* and mux.Close)
MuxAccept ==
    /\ ~panicked
    /\ mode = "mux"
    /\ muxPc = "loop"
    /\ \/ \E s \in 1 .. MaxSecondary :
            /\ pc[s] = "idle"
            /\ \A t \in 1 .. s - 1 : pc[t] # "idle"
            /\ pc' = [pc EXCEPT ![s] = "parse"]
            /\ UNCHANGED <<muxPc, muxClosed, ev>>
       \/ /\ muxPc' = "returned"
          /\ muxClosed' = muxClosed + 1
          /\ ev' = [ev EXCEPT ![0] = Append(@, <<"SessionConnClose", ret[0].ar.SessionID>>)]
          /\ UNCHANGED pc
    /\ UNCHANGED <<cfg, mode, dgPc, herr, req, ar, ret, closes, panicked>>
    /\ UNCHANGED restOfServe

(***************************************************************************)
(* The specification of the stream entry points                            *)
(***************************************************************************)
Configs == [rule : BOOLEAN, ignoreFragmented : BOOLEAN]

Directions == {1, 2}

AssocIDs == 1 .. MaxAssoc
Pairs == 1 .. MaxAssoc
BindAddrs == 1 .. MaxBacklog
\* no association under an id
NoAssoc == [present |-> FALSE, alive |-> FALSE, pair |-> 0]

\* no function is being called
NoCall == [fn |-> "none"]
NoOut == [out |-> "none"]
\* no association under an id, as the functions of one input look at it
NoUA == [present |-> FALSE, icmpOn |-> FALSE, addr |-> 0]
FnIdle ==
    /\ fnPc = "idle"
    /\ fnCall = NoCall
    /\ fnOut = NoOut
    /\ fnAssocs = [i \in AssocIDs |-> NoUA]

\* NewServerWorker lines 127-129: the three maps are empty; no reaper runs
ReaperIdle ==
    /\ backlogWorker = [b \in BindAddrs |-> "none"]
    /\ reservedUdpAddr = [p \in Pairs |-> 0]
    /\ udpAssociation = [i \in AssocIDs |-> NoAssoc]
    /\ reaperPc = "idle"
    /\ reaperCtx = "live"
    /\ toVisit = {}
    /\ curKey = 0
    /\ uaPair = 0
    /\ deadAtTick = [bl |-> {}, ua |-> {}]
    /\ reaped = {}
    /\ udpOpen = {}

\* no relay is running
RelayIdle ==
    /\ rpc = "idle"
    /\ ctx = "live"
    /\ ctx2 = "live"
    /\ rerr = "nil"
    /\ errCh = << >>
    /\ errLog = << >>
    /\ wpc = "idle"
    /\ dpc = [d \in Directions |-> "idle"]
    /\ buf = [d \in Directions |-> << >>]
    /\ eRead = [d \in Directions |-> "nil"]
    /\ dret = [d \in Directions |-> "nil"]
    /\ srcLog = [d \in Directions |-> << >>]
    /\ dstLog = [d \in Directions |-> << >>]
    /\ pool = [rented |-> 0, returned |-> 0]
    /\ closed = [e \in Directions |-> 0]
    /\ relayRet = "none"

\* a client datagram: a UDP message carrying an association id, bytes that
\* do not parse, or a message of another protocol version
Datagrams == [kind : {"ok"}, id : AssocIDs] \cup [kind : {"bad", "version"}, id : {0}]
\* the nil *udpAssociation, and the nil *message.UDPMessage
NilUA == 0
NilUDPMessage == 0

\* serverworker.go lines 420-437: parse the datagram and look its
\* association up; verHandler says DatagramVersionErrorHandler is set
handleFirstDatagram(registered, d, verHandler) ==
    IF d.kind # "ok"
    THEN [assoc |-> NilUA, h |-> NilUDPMessage, verr |-> d.kind = "version" /\ verHandler]
    ELSE IF d.id \notin registered
    THEN [assoc |-> NilUA, h |-> NilUDPMessage, verr |-> FALSE]
    ELSE [assoc |-> d.id, h |-> d.id, verr |-> FALSE]

\* assoc.handleUdpUp(ctx, socksDatagram{msg: h, ...}): the call, and how it
\* ends; nilPanics says the method dereferences a nil receiver
handleUdpUp(assoc, h, nilPanics) ==
    [out |-> IF assoc = NilUA /\ nilPanics THEN "panic" ELSE "return",
     uplink |-> <<[assoc |-> assoc, h |-> h]>>]

\* serverworker.go lines 408-418 and 381-386: the first datagram d is looked
\* up and handed to handleUdpUp of what the lookup gave; registeredAt notes
\* for each uplink call whether its association was in the map then
ServedFirst(registered, d, verHandler, nilPanics) ==
    LET first == handleFirstDatagram(registered, d, verHandler)
        up == handleUdpUp(first.assoc, first.h, nilPanics)
    IN  [out |-> up.out, uplink |-> up.uplink, verr |-> first.verr, assoc |-> first.assoc,
         registeredAt |-> <<first.assoc \in registered>>, k |-> 2]

\* ServeMuxConn lines 485-496, the datagram goroutine of a mux that is a
\* nt.SeqPacket: NextDatagram fails and the goroutine returns, or it yields
\* a datagram that goes to ServeDatagram (lines 408-418)
MuxDatagram ==
    /\ ~panicked
    /\ mode = "mux"
    /\ dgPc = "next"
    /\ \/ /\ dgPc' = "none"
          /\ UNCHANGED panicked
       \/ /\ panicked' \in
                {ServedFirst({i \in AssocIDs : udpAssociation[i].present},
                             d, verHandler, nilPanics).out = "panic" :
                    d \in Datagrams, verHandler \in BOOLEAN, nilPanics \in BOOLEAN}
          /\ UNCHANGED dgPc
    /\ UNCHANGED <<cfg, mode, muxPc, muxClosed, pc, req, ar, ret, ev, closes, herr>>
    /\ UNCHANGED restOfServe

Init ==
    /\ cfg \in Configs
    /\ mode \in {"stream", "mux"}
    /\ muxPc = IF mode = "mux" THEN "accept0" ELSE "none"
    /\ muxClosed = 0
    /\ pc = [s \in Streams |-> IF mode = "stream" /\ s = 0 THEN "parse" ELSE "idle"]
    /\ req = [s \in Streams |-> NoRequest]
    /\ ar = [s \in Streams |-> NilAuth]
    /\ ret = [s \in Streams |-> NoReturn]
    /\ ev = [s \in Streams |-> << >>]
    /\ closes = [s \in Streams |-> 0]
    /\ herr = [s \in Streams |-> NoErr]
    /\ dgPc = "none"
    /\ panicked = FALSE
    /\ RelayIdle
    /\ ReaperIdle
    /\ FnIdle

Next ==
    \/ \E s \in Streams : ParseRequest(s)
    \/ \E s \in Streams : WriteErrorReply(s)
    \/ \E s \in Streams : ReadInitData(s)
    \/ \E s \in Streams : Authenticate(s)
    \/ \E s \in Streams : WriteAuthReply1(s)
    \/ \E s \in Streams : ContinueAuthenticate(s)
    \/ \E s \in Streams : WriteAuthReply2(s)
    \/ \E s \in Streams : ApplyRule(s)
    \/ \E s \in Streams : WriteOpReply(s)
    \/ \E s \in Streams : HandlerReturn(s)
    \/ ServeStreamDispatch
    \/ MuxAcceptFirst
    \/ MuxFirstDispatch
    \/ MuxAccept
    \/ MuxDatagram

Spec == Init /\ [][Next]_vars

(***************************************************************************)
(* Properties of the stream entry points                                   *)
(***************************************************************************)
\* handshakeStream has returned on stream s
Returned(s) == pc[s] \in {"hsret", "handler", "done"}

\* serving stream 0 is over: ServeStream returned, or ServeMuxConn did
Served0 == (mode = "stream" /\ pc[0] = "done") \/ (mode = "mux" /\ muxPc = "returned")

\* authentication succeeded on stream s: handshakeStream returned the result
AuthSucceeded(s) == Returned(s) /\ ~ret[s].ar.nil /\ ret[s].ar.Success

\* position of the first operation reply with a code, 0 when there is none
OpReplyAt(log, code) == First(log, <<"OpReply", code>>)

\* the last authentication reply written on a stream, -1 when there is none
RECURSIVE LastAuthReply(_)
LastAuthReply(log) ==
    IF log = << >> THEN -1
    ELSE IF log[Len(log)][1] = "AuthReply" THEN log[Len(log)][2]
    ELSE LastAuthReply(SubSeq(log, 1, Len(log) - 1))

\* C1: for every stream served by ServeStream whose authentication
\* succeeded, SessionConnClose is called exactly once, with the stream's
\* session id and after the handler (if any) returned; it is never called
\* for a stream whose authentication did not succeed.
C1_SessionClosedOnce ==
    (mode = "stream" /\ pc[0] = "done") =>
        IF AuthSucceeded(0)
        THEN /\ CountKind(ev[0], "SessionConnClose") = 1
             /\ Has(ev[0], <<"SessionConnClose", ret[0].ar.SessionID>>)
             /\ HasKind(ev[0], "Handler") =>
                   /\ FirstKind(ev[0], "HandlerReturn") > 0
                   /\ FirstKind(ev[0], "HandlerReturn") < FirstKind(ev[0], "SessionConnClose")
        ELSE CountKind(ev[0], "SessionConnClose") = 0

\* C2: when the rule returns false for an authenticated request, the
\* operation-reply(NotAllowedByRule) is written, the handshake returns the
\* command code and no SocksConn, no handler is invoked, the stream is closed
\* and SessionConnClose still runs for the authenticated session.
C2_RuleDenialCleansUp ==
    (Served0 /\ Has(ev[0], <<"Rule", 0>>)) =>
        /\ OpReplyAt(ev[0], OperationReplyNotAllowedByRule) > 0
        /\ ~ret[0].sc
        /\ ret[0].cmd \in RequestCommands
        /\ ~HasKind(ev[0], "Handler")
        /\ closes[0] >= 1
        /\ Has(ev[0], <<"SessionConnClose", ret[0].ar.SessionID>>)

\* C3 as stated: operation-reply(CommandNotSupported) comes before any
\* authenticator call, rule call or handler invocation on the stream, and
\* the stream is then closed.
C3_NoSideEffectBeforeReply ==
    \A s \in Streams :
        LET i == OpReplyAt(ev[s], OperationReplyCommandNotSupported) IN
        i > 0 =>
            /\ \A j \in 1 .. i - 1 :
                  ev[s][j][1] \notin {"Authenticate", "ContinueAuthenticate", "Rule", "Handler"}
            /\ closes[s] >= 1

\* C3 amended: a request whose command has no handler gets
\* operation-reply(CommandNotSupported) after authentication succeeded (on a
\* stream without prior AuthResult) and after the rule, when configured,
\* allowed it; the handshake returns no SocksConn, no handler is ever
\* invoked for the stream, and the stream is closed.
C3_UnsupportedCommandRejected ==
    \A s \in Streams :
        LET i == OpReplyAt(ev[s], OperationReplyCommandNotSupported) IN
        /\ (Returned(s) /\ ~ret[s].ar.nil /\ ~Has(ev[s], <<"Rule", 0>>)
                /\ ret[s].cmd \notin CommandHandlers) => i > 0
        /\ i > 0 =>
            /\ Returned(s)
            /\ ret[s].cmd \notin CommandHandlers
            /\ ~ret[s].sc
            /\ closes[s] >= 1
            /\ ~HasKind(ev[s], "Handler")
            /\ PrevAuth(s).nil =>
                  /\ First(ev[s], <<"Authenticate", 0>>) \in 1 .. i - 1
                  /\ First(ev[s], <<"AuthReply", AuthenticationReplySuccess>>) \in 1 .. i - 1
            /\ cfg.rule => First(ev[s], <<"Rule", 1>>) \in 1 .. i - 1

\* an unsupported command was rejected on a served stream, after a
\* two-stage authentication and an allowing rule
C3_Witness ==
    /\ mode = "stream"
    /\ pc[0] = "done"
    /\ Has(ev[0], <<"OpReply", OperationReplyCommandNotSupported>>)
    /\ Has(ev[0], <<"ContinueAuthenticate", 0>>)
    /\ Has(ev[0], <<"Rule", 1>>)

\* authn has come to its end on stream s without having written an
\* authentication-reply(success)
AuthFailed(s) ==
    /\ Has(ev[s], <<"Authenticate", 0>>)
    /\ pc[s] \notin {"authw1", "auth2", "authw2"}
    /\ ~Has(ev[s], <<"AuthReply", AuthenticationReplySuccess>>)

\* C4: on a stream without prior AuthResult whose authentication does not
\* end in success, no handler is ever invoked, no operation reply is
\* written, the stream is closed, and unless a write failed the last
\* authentication reply written is authentication-reply(fail).
C4_AuthFailureStopsStream ==
    \A s \in Streams :
        (PrevAuth(s).nil /\ AuthFailed(s)) =>
            /\ Returned(s)
            /\ ret[s].ar.nil
            /\ ~ret[s].sc
            /\ ~HasKind(ev[s], "Handler")
            /\ ~HasKind(ev[s], "OpReply")
            /\ ~HasKind(ev[s], "Rule")
            /\ closes[s] >= 1
            /\ ~HasKind(ev[s], "AuthReplyErr") => LastAuthReply(ev[s]) = AuthenticationReplyFail

\* a two-stage authentication failed in its second stage, with every reply
\* written, and the stream has been served to its end
C4_Witness ==
    /\ mode = "stream"
    /\ pc[0] = "done"
    /\ ret[0].ar.nil
    /\ Has(ev[0], <<"ContinueAuthenticate", 0>>)
    /\ ~HasKind(ev[0], "AuthReplyErr")
    /\ CountKind(ev[0], "AuthReply") = 2

\* C5: whenever handshakeStream returns no SocksConn the stream has been
\* closed; whenever it returns a SocksConn the worker has not closed the
\* stream and never closes it afterwards.
C5_ScopedClose ==
    \A s \in Streams :
        Returned(s) =>
            /\ ~ret[s].sc => closes[s] >= 1
            /\ ret[s].sc => (closes[s] = 0 /\ ~Has(ev[s], <<"Close", 0>>))

\* on one multiplexed connection the first stream was handed to its handler,
\* which has returned, and a secondary stream left the handshake early
C5_Witness ==
    /\ mode = "mux"
    /\ pc[0] = "done"
    /\ ret[0].sc
    /\ closes[0] = 0
    /\ pc[1] = "hsret"
    /\ ~ret[1].sc
    /\ closes[1] = 1

\* C6: serving a multiplexed connection never panics: a handshake that
\* yields no SocksConn leads to no dereference of the missing SocksConn.
C6_MuxNeverPanics == ~panicked

\* the well-formed request of stream s arrived in n packets
RequestIn(log, n) == Has(log, <<"Request", n>>)

\* C13: with IgnoreFragmentedRequest set, on a secondary stream of a
\* multiplexed session a request that arrived in two packets is rejected when
\* it is parsed (the stream is closed, no SocksConn is returned and no handler
\* is ever dispatched), while a request that arrived in one packet is parsed
\* and, once the handshake has returned a SocksConn for it, dispatched to the
\* handler of its command.
C13_FragmentPolicy ==
    [][ \A s \in 1 .. MaxSecondary :
          (mode = "mux" /\ cfg.ignoreFragmented) =>
            /\ (pc[s] = "parse" /\ pc'[s] # "parse" /\ RequestIn(ev'[s], 2)) =>
                    /\ pc'[s] = "hsret"
                    /\ ~ret'[s].sc
                    /\ closes'[s] = closes[s] + 1
            /\ (pc[s] = "parse" /\ pc'[s] # "parse" /\ RequestIn(ev'[s], 1)) =>
                    pc'[s] \in {"initdata", "rule"}
            /\ RequestIn(ev'[s], 2) => ~ret'[s].sc /\ ~HasKind(ev'[s], "Handler")
            /\ (RequestIn(ev'[s], 1) /\ ~Returned(s) /\ ret'[s].sc) =>
                    /\ pc'[s] = "handler"
                    /\ ev'[s][Len(ev'[s])] = <<"Handler", ret'[s].cmd>>
                    /\ CountKind(ev'[s], "Handler") = 1
      ]_vars

\* a secondary stream whose request arrived in two packets has been rejected
\* by a worker with IgnoreFragmentedRequest set
C13_Witness ==
    /\ mode = "mux"
    /\ cfg.ignoreFragmented
    /\ \E s \in 1 .. MaxSecondary :
        /\ pc[s] = "hsret"
        /\ ev[s] = <<<<"Request", 2>>, <<"RequestError", 0>>, <<"Close", 0>>>>
        /\ closes[s] = 1

\* the replies written on a stream, in order
IsReply(e) == e[1] \in {"AuthReply", "AuthReplyErr", "OpReply", "VersionReply"}
RepliesOf(log) == SelectSeq(log, IsReply)

\* C15: when parsing the request fails with an error that is not a version
\* mismatch, the worker writes exactly authentication-reply(fail) and then
\* operation-reply(AddressNotSupported) if the error is address type not
\* supported, and nothing for any other error; it then closes the stream; the
\* authenticator is never called and no handler runs.  While
\* handleRequestError is still writing, what it has written is the
\* beginning of these replies and the stream is open.
C15_ParseErrorReplies ==
    \A s \in Streams :
        (HasKind(ev[s], "RequestError") /\ ~Has(ev[s], <<"RequestError", 2>>)) =>
            /\ LET want == IF Has(ev[s], <<"RequestError", 1>>)
                           THEN <<<<"AuthReply", AuthenticationReplyFail>>,
                                  <<"OpReply", OperationReplyAddressNotSupported>>>>
                           ELSE << >>
                   got == RepliesOf(ev[s])
               IN  IF pc[s] = "reqerr"
                   THEN /\ Len(got) < Len(want)
                        /\ got = SubSeq(want, 1, Len(got))
                        /\ ~HasKind(ev[s], "Close")
                        /\ closes[s] = 0
                   ELSE /\ got = want
                        /\ ev[s][Len(ev[s])] = <<"Close", 0>>
                        /\ closes[s] >= 1
            /\ \A i \in 1 .. Len(ev[s]) :
                    (IsReply(ev[s][i]) /\ HasKind(ev[s], "Close")) =>
                        i < FirstKind(ev[s], "Close")
            /\ ~HasKind(ev[s], "Authenticate")
            /\ ~HasKind(ev[s], "ContinueAuthenticate")
            /\ ~HasKind(ev[s], "Handler")
            /\ ~ret[s].sc

\* a stream whose request had an unsupported address type has been answered
\* and closed; the entry point has handled the return of the handshake
C15_Witness ==
    \E s \in Streams :
        /\ pc[s] = "done"
        /\ Has(ev[s], <<"RequestError", 1>>)
        /\ Has(ev[s], <<"OpReply", OperationReplyAddressNotSupported>>)

\* the length of the initial data stream s was asked to read, -1 for none
InitLenOf(log) ==
    IF HasKind(log, "ReadFull") THEN log[FirstKind(log, "ReadFull")][2]
    ELSE IF HasKind(log, "ReadFullErr") THEN log[FirstKind(log, "ReadFullErr")][2]
    ELSE -1

\* C18: a request that advertises initial data of length N makes the driver
\* read exactly the next N bytes of the stream, before any call of the
\* authenticator, and the handler gets exactly those N bytes, in order, as
\* InitialData; when fewer than N bytes can be read the stream is closed and
\* there is no authenticator call, no reply and no handler.
C18_InitialData ==
    \A s \in Streams :
        /\ HasKind(ev[s], "ReadFull") =>
            /\ CountKind(ev[s], "ReadFull") = 1
            /\ HasKind(ev[s], "Authenticate") =>
                    FirstKind(ev[s], "ReadFull") < FirstKind(ev[s], "Authenticate")
            /\ HasKind(ev[s], "Handler") =>
                    ret[s].initData = [i \in 1 .. InitLenOf(ev[s]) |-> i]
        /\ HasKind(ev[s], "ReadFullErr") =>
            /\ ~HasKind(ev[s], "Authenticate")
            /\ ~HasKind(ev[s], "ContinueAuthenticate")
            /\ RepliesOf(ev[s]) = << >>
            /\ ~HasKind(ev[s], "Handler")
            /\ ~ret[s].sc
            /\ closes[s] >= 1
            /\ HasKind(ev[s], "Close")

\* a handler runs on a stream whose request advertised as many bytes of
\* initial data as the model allows, after an authentication
C18_Witness ==
    \E s \in Streams :
        /\ Has(ev[s], <<"ReadFull", MaxInitLen>>)
        /\ HasKind(ev[s], "Authenticate")
        /\ HasKind(ev[s], "Handler")
        /\ Len(ret[s].initData) = MaxInitLen

\* the authentication replies handed to conn.Write on a stream, in order,
\* whether or not the write succeeded
IsAuthWrite(e) == e[1] \in {"AuthReply", "AuthReplyErr"}
AuthWrites(log) == SelectSeq(log, IsAuthWrite)
\* a first-stage result that asks for a second stage
TwoStage(result1) == ~result1.Success /\ result1.Continue

\* the type of the reply C19 expects to an authenticator result (an error
\* of the second stage leaves no result)
ReplyTypeFor(result) ==
    IF ~result.nil /\ result.Success
    THEN AuthenticationReplySuccess ELSE AuthenticationReplyFail

\* what C19 says of every step of stream s but the reply to the first stage
AuthRepliesAfterFirst(s) ==
    /\ (pc[s] = "auth2" /\ pc'[s] # "auth2") =>
            /\ ev'[s] = Append(ev[s], <<"ContinueAuthenticate", 0>>)
            /\ ev[s][Len(ev[s])] = <<"AuthReply", AuthenticationReplyFail>>
            /\ AuthWrites(ev[s]) = <<<<"AuthReply", AuthenticationReplyFail>>>>
    /\ (pc[s] = "authw2" /\ pc'[s] # "authw2") =>
            /\ Len(AuthWrites(ev'[s])) = 2
            /\ SubSeq(AuthWrites(ev'[s]), 1, 1) = AuthWrites(ev[s])
            /\ AuthWrites(ev'[s])[2][2] = ReplyTypeFor(ar[s])
    /\ pc[s] \notin {"parse", "reqerr", "authw1", "authw2"} =>
            AuthWrites(ev'[s]) = AuthWrites(ev[s])
    /\ \A i \in 1 .. Len(AuthWrites(ev'[s])) :
            AuthWrites(ev'[s])[i][2] = AuthenticationReplySuccess =>
                /\ i = Len(AuthWrites(ev'[s]))
                /\ HasKind(ev'[s], "Authenticate")

\* C19 as stated: a two-stage first result is always answered by a written
\* interim authentication-reply(fail) and followed by ContinueAuthenticate
\* and exactly one final reply, success iff the second stage succeeded; a
\* one-stage result gets exactly one reply; a success reply is the last
\* authentication reply of its stream.
C19_TwoStageAlwaysCompletes ==
    [][ \A s \in Streams :
          /\ (pc[s] = "authw1" /\ pc'[s] # "authw1") =>
                /\ AuthWrites(ev[s]) = << >>
                /\ Len(AuthWrites(ev'[s])) = 1
                /\ AuthWrites(ev'[s])[1][2] = ReplyTypeFor(ar[s])
                /\ IF TwoStage(ar[s])
                   THEN /\ pc'[s] = "auth2"
                        /\ AuthWrites(ev'[s])[1] = <<"AuthReply", AuthenticationReplyFail>>
                   ELSE pc'[s] # "auth2"
          /\ AuthRepliesAfterFirst(s)
      ]_vars

\* C19 amended: the reply to the first stage is one write of
\* authentication-reply(success) for a success and of
\* authentication-reply(fail) otherwise; ContinueAuthenticate is called
\* exactly when the first result asks for a second stage and the write of
\* its interim reply succeeded, straight after that reply; a failed write
\* ends the handshake with no further authenticator call and no further
\* reply; a second stage is answered by exactly one final reply, success iff
\* its result succeeded (fail when it returned an error); no other step
\* writes an authentication reply after the authenticator was called, and a
\* success reply is the last authentication reply of its stream.
C19_AuthReplies ==
    [][ \A s \in Streams :
          /\ (pc[s] = "authw1" /\ pc'[s] # "authw1") =>
                /\ AuthWrites(ev[s]) = << >>
                /\ Len(AuthWrites(ev'[s])) = 1
                /\ AuthWrites(ev'[s])[1][2] = ReplyTypeFor(ar[s])
                /\ pc'[s] = "auth2" <=>
                      (TwoStage(ar[s]) /\ AuthWrites(ev'[s])[1][1] = "AuthReply")
                /\ AuthWrites(ev'[s])[1][1] = "AuthReplyErr" =>
                      /\ pc'[s] \in {"hsret", "done"}
                      /\ ~ret'[s].sc
                      /\ ret'[s].ar.nil
          /\ AuthRepliesAfterFirst(s)
      ]_vars

\* a two-stage authentication has succeeded in its second stage and the
\* stream's handler runs
C19_Witness ==
    \E s \in Streams :
        /\ pc[s] = "handler"
        /\ HasKind(ev[s], "ContinueAuthenticate")
        /\ AuthWrites(ev[s]) = <<<<"AuthReply", AuthenticationReplyFail>>,
                                 <<"AuthReply", AuthenticationReplySuccess>>>>

\* what C20 says of a multiplexed connection but for the authentication
\* replies on its secondary streams
MuxAuthenticatesOnce ==
    /\ CountKind(ev[0], "Authenticate") <= 1
    /\ \A s \in 1 .. MaxSecondary :
        /\ ~HasKind(ev[s], "Authenticate")
        /\ ~HasKind(ev[s], "ContinueAuthenticate")
        /\ pc[s] # "idle" =>
              /\ CountKind(ev[0], "Authenticate") = 1
              /\ AuthSucceeded(0)
              /\ Has(ev[0], <<"AuthReply", AuthenticationReplySuccess>>)
        /\ pc[s] = "rule" => AuthResult(s) = ret[0].ar
        /\ (Returned(s) /\ ~ret[s].ar.nil) => ret[s].ar = ret[0].ar
        /\ ret[s].sc => (Returned(s) /\ ~ret[s].ar.nil)
        /\ HasKind(ev[s], "Handler") => ret[s].sc

\* C20 as stated: on a multiplexed connection Authenticate is called once,
\* on the first stream; a secondary stream is accepted only after the first
\* stream's authentication succeeded, works with the first stream's
\* AuthResult, calls neither stage of the authenticator and writes no
\* authentication reply.
C20_SecondaryWritesNoAuthReply ==
    mode = "mux" =>
        /\ MuxAuthenticatesOnce
        /\ \A s \in 1 .. MaxSecondary : AuthWrites(ev[s]) = << >>

\* C20 amended: as stated, but a secondary stream whose request has an
\* unsupported address type is answered with one authentication-reply(fail)
\* (before its operation reply); no other authentication reply is written
\* on a secondary stream.
C20_MuxReusesAuthResult ==
    mode = "mux" =>
        /\ MuxAuthenticatesOnce
        /\ \A s \in 1 .. MaxSecondary :
              AuthWrites(ev[s]) =
                  IF Has(ev[s], <<"RequestError", 1>>)
                       /\ ev[s][Len(ev[s])] # <<"RequestError", 1>>
                  THEN <<<<"AuthReply", AuthenticationReplyFail>>>>
                  ELSE << >>

\* a secondary stream's handler runs with the AuthResult of the first
\* stream, which was authenticated in two stages
C20_Witness ==
    /\ mode = "mux"
    /\ HasKind(ev[0], "ContinueAuthenticate")
    /\ \E s \in 1 .. MaxSecondary :
        /\ pc[s] = "handler"
        /\ ret[s].sc
        /\ ret[s].ar = ret[0].ar
        /\ ret[s].ar.SessionID = MaxSession

\* C21: with IgnoreFragmentedRequest set, a request that arrived in two
\* packets is rejected when it is parsed on every stream the worker serves,
\* the stream of ServeStream and the first stream of a multiplexed
\* connection included: the authenticator is not called for it, it gets no
\* SocksConn and no handler runs.
C21_FragmentRejectedOnEveryStream ==
    cfg.ignoreFragmented =>
        \A s \in Streams :
            RequestIn(ev[s], 2) =>
                /\ Has(ev[s], <<"RequestError", 0>>)
                /\ ~HasKind(ev[s], "Authenticate")
                /\ ~HasKind(ev[s], "Handler")
                /\ ~ret[s].sc

(***************************************************************************)
(* The relay engine: relay and relayOneDirection (utils.go)                *)
(***************************************************************************)
\* capacity of errCh (make(chan error, 4))
ErrChCap == 4

\* errors a Read ends with (io.EOF, a deadline or connection error) and a
\* Write ends with
ReadErrors == {"EOF", "timeout"}
WriteErrors == {"werr"}

\* direction 1 pumps c to r, direction 2 pumps r to c

\* what one c1.Read(buf) may return: nRead bytes and eRead; the peer's
\* bytes are numbered 1, 2, 3, ... in the order it pushed them
ReadOutcomes(d) ==
    {o \in [n : 0 .. MaxChunk, e : {"nil"} \cup ReadErrors] :
        /\ Len(srcLog[d]) + o.n <= MaxBytes
        /\ ~(o.n = 0 /\ o.e = "nil")}

\* what one c2.Write(buf[:nRead]) may return: nWrite bytes and eWrite
WriteOutcomes(nRead) == [n : 0 .. nRead, e : {"nil"} \cup WriteErrors]

\* relayOneDirection lines 109-129, after Read returned (nRead, eRead):
\* write the chunk when there is one, whatever eRead is
AfterReadErrorFirst(nRead, e) ==
    IF e # "nil" THEN e ELSE IF nRead > 0 THEN "write" ELSE "loop"
AfterRead(nRead, e) ==
    IF nRead > 0 THEN "write" ELSE IF e # "nil" THEN e ELSE "loop"

\* relayOneDirection lines 116-129, after Write returned (nWrite, eWrite)
AfterWrite(nRead, nWrite, eWrite, e) ==
    IF eWrite # "nil" THEN eWrite
    ELSE IF nRead # nWrite THEN "short"
    ELSE IF e # "nil" THEN e
    ELSE "loop"

\* relay lines 94-97: the value relay returns for the recorded err
RelayResultUnmapped(err) == err
RelayResult(err) == IF err = "EOF" THEN "nil" ELSE err

\* internal.BytesPool4k: Rent hands out a buffer, Return takes one back
Rent(p) == [p EXCEPT !.rented = @ + 1]
Return(p) == [p EXCEPT !.returned = @ + 1]

\* relayOneDirection returns e: the deferred Return gives the buffer back to
\* the pool and the goroutine sends e (never nil here) into errCh
PumpReturnLeak(d, e) ==
    /\ Len(errCh) < ErrChCap
    /\ dret' = [dret EXCEPT ![d] = e]
    /\ dpc' = [dpc EXCEPT ![d] = "done"]
    /\ pool' = IF e = "EOF" THEN Return(pool) ELSE pool
    /\ errCh' = IF e # "nil" THEN Append(errCh, e) ELSE errCh
    /\ errLog' = IF e # "nil" THEN Append(errLog, e) ELSE errLog
PumpReturn(d, e) ==
    /\ Len(errCh) < ErrChCap
    /\ dret' = [dret EXCEPT ![d] = e]
    /\ dpc' = [dpc EXCEPT ![d] = "done"]
    /\ pool' = Return(pool)
    /\ errCh' = IF e # "nil" THEN Append(errCh, e) ELSE errCh
    /\ errLog' = IF e # "nil" THEN Append(errLog, e) ELSE errLog

\* relayOneDirection lines 101-103: rent the buffer
PumpStart(d) ==
    /\ dpc[d] = "start"
    /\ dpc' = [dpc EXCEPT ![d] = "read"]
    /\ pool' = Rent(pool)
    /\ UNCHANGED <<rpc, ctx, ctx2, rerr, errCh, errLog, wpc, buf, eRead, dret,
                   srcLog, dstLog, closed, relayRet>>
    /\ UNCHANGED restOfRelay

\* relayOneDirection lines 107-113 and 127-129: one Read
PumpRead(d) ==
    /\ dpc[d] = "read"
    /\ \E o \in ReadOutcomes(d) :
        LET chunk == [i \in 1 .. o.n |-> Len(srcLog[d]) + i]
            next == AfterRead(o.n, o.e) IN
        /\ srcLog' = [srcLog EXCEPT ![d] = @ \o chunk]
        /\ buf' = [buf EXCEPT ![d] = chunk]
        /\ eRead' = [eRead EXCEPT ![d] = o.e]
        /\ IF next = "write"
           THEN /\ dpc' = [dpc EXCEPT ![d] = "write"]
                /\ UNCHANGED <<dret, pool, errCh, errLog>>
           ELSE IF next = "loop"
           THEN UNCHANGED <<dpc, dret, pool, errCh, errLog>>
           ELSE PumpReturn(d, next)
    /\ UNCHANGED <<rpc, ctx, ctx2, rerr, wpc, dstLog, closed, relayRet>>
    /\ UNCHANGED restOfRelay

\* relayOneDirection lines 114-129: one Write of the chunk just read
PumpWrite(d) ==
    /\ dpc[d] = "write"
    /\ \E o \in WriteOutcomes(Len(buf[d])) :
        LET next == AfterWrite(Len(buf[d]), o.n, o.e, eRead[d]) IN
        /\ dstLog' = [dstLog EXCEPT ![d] = @ \o SubSeq(buf[d], 1, o.n)]
        /\ IF next = "loop"
           THEN /\ dpc' = [dpc EXCEPT ![d] = "read"]
                /\ UNCHANGED <<dret, pool, errCh, errLog>>
           ELSE PumpReturn(d, next)
    /\ UNCHANGED <<rpc, ctx, ctx2, rerr, wpc, buf, eRead, srcLog, closed, relayRet>>
    /\ UNCHANGED restOfRelay

\* relay lines 67-75, case <-ctx2.Done()
WatcherCtxDone ==
    /\ wpc = "wait"
    /\ ctx2 = "cancelled"
    /\ rerr' = "canceled"
    /\ wpc' = "done"
    /\ UNCHANGED <<rpc, ctx, ctx2, errCh, errLog, dpc, buf, eRead, dret,
                   srcLog, dstLog, pool, closed, relayRet>>
    /\ UNCHANGED restOfRelay

\* relay lines 67-75, case err = <-errCh, then cancel()
WatcherRecv ==
    /\ wpc = "wait"
    /\ errCh # << >>
    /\ rerr' = Head(errCh)
    /\ errCh' = Tail(errCh)
    /\ ctx2' = "cancelled"
    /\ wpc' = "done"
    /\ UNCHANGED <<rpc, ctx, errLog, dpc, buf, eRead, dret,
                   srcLog, dstLog, pool, closed, relayRet>>
    /\ UNCHANGED restOfRelay

\* the caller of relay cancels its context; ctx2 is derived from it
CancelCtx ==
    /\ rpc = "running"
    /\ ctx = "live"
    /\ ctx' = "cancelled"
    /\ ctx2' = "cancelled"
    /\ UNCHANGED <<rpc, rerr, errCh, errLog, wpc, dpc, buf, eRead, dret,
                   srcLog, dstLog, pool, closed, relayRet>>
    /\ UNCHANGED restOfRelay

\* relay lines 92-97 and the deferred cancel(), r.Close(), c.Close():
\* wg.Wait() lets relay go on when the three goroutines are done
RelayReturnNoWait ==
    /\ rpc = "running"
    /\ relayRet' = RelayResult(rerr)
    /\ ctx2' = "cancelled"
    /\ closed' = [e \in Directions |-> closed[e] + 1]
    /\ rpc' = "returned"
    /\ UNCHANGED <<ctx, rerr, errCh, errLog, wpc, dpc, buf, eRead, dret,
                   srcLog, dstLog, pool>>
    /\ UNCHANGED restOfRelay
RelayReturn ==
    /\ rpc = "running"
    /\ wpc = "done"
    /\ \A d \in Directions : dpc[d] = "done"
    /\ relayRet' = RelayResult(rerr)
    /\ ctx2' = "cancelled"
    /\ closed' = [e \in Directions |-> closed[e] + 1]
    /\ rpc' = "returned"
    /\ UNCHANGED <<ctx, rerr, errCh, errLog, wpc, dpc, buf, eRead, dret,
                   srcLog, dstLog, pool>>
    /\ UNCHANGED restOfRelay

\* no stream is being served
ServeIdle ==
    /\ cfg = [rule |-> FALSE, ignoreFragmented |-> FALSE]
    /\ mode = "none"
    /\ muxPc = "none"
    /\ muxClosed = 0
    /\ pc = [s \in Streams |-> "idle"]
    /\ req = [s \in Streams |-> NoRequest]
    /\ ar = [s \in Streams |-> NilAuth]
    /\ ret = [s \in Streams |-> NoReturn]
    /\ ev = [s \in Streams |-> << >>]
    /\ closes = [s \in Streams |-> 0]
    /\ herr = [s \in Streams |-> NoErr]
    /\ dgPc = "none"
    /\ panicked = FALSE

\* relay has been called and has started its three goroutines
InitRelay ==
    /\ ServeIdle
    /\ ReaperIdle
    /\ FnIdle
    /\ rpc = "running"
    /\ ctx = "live"
    /\ ctx2 = "live"
    /\ rerr = "nil"
    /\ errCh = << >>
    /\ errLog = << >>
    /\ wpc = "wait"
    /\ dpc = [d \in Directions |-> "start"]
    /\ buf = [d \in Directions |-> << >>]
    /\ eRead = [d \in Directions |-> "nil"]
    /\ dret = [d \in Directions |-> "nil"]
    /\ srcLog = [d \in Directions |-> << >>]
    /\ dstLog = [d \in Directions |-> << >>]
    /\ pool = [rented |-> 0, returned |-> 0]
    /\ closed = [e \in Directions |-> 0]
    /\ relayRet = "none"

NextRelay ==
    \/ \E d \in Directions : PumpStart(d)
    \/ \E d \in Directions : PumpRead(d)
    \/ \E d \in Directions : PumpWrite(d)
    \/ WatcherCtxDone
    \/ WatcherRecv
    \/ CancelCtx
    \/ RelayReturn

SpecRelay == InitRelay /\ [][NextRelay]_vars

(***************************************************************************)
(* Properties of the relay engine                                          *)
(***************************************************************************)
IsPrefix(a, b) == Len(a) <= Len(b) /\ SubSeq(b, 1, Len(a)) = a

\* a direction has ended and the watcher has finished its work
OneDirectionEnded == wpc = "done" /\ \E d \in Directions : dpc[d] = "done"

\* C7: relay exits iff one direction has seen EOF or an error or the context
\* was cancelled: relay closes no endpoint before that, and once a
\* direction has ended (and the watcher has recorded it) the other direction
\* forwards nothing more, whatever its peer keeps sending.
C7_RelayExitsWhenOneSideEnds ==
    [][/\ closed' # closed => ((\E d \in Directions : dpc[d] = "done") \/ ctx = "cancelled")
       /\ OneDirectionEnded => srcLog' = srcLog]_vars

\* C8: cancelling the context aborts both directions: once the context is
\* cancelled and the watcher has seen it, no direction takes more bytes from
\* its source, whatever the peers keep sending.
C8_CancelAbortsBothDirections ==
    [][(ctx = "cancelled" /\ wpc = "done" /\ rerr = "canceled") => srcLog' = srcLog]_vars

\* C9 as stated: whenever a direction terminates with EOF, relay returns nil,
\* whatever the order of termination and the other direction's error.
C9_AnyEOFIsSuccess ==
    (rpc = "returned" /\ \E d \in Directions : dret[d] = "EOF") => relayRet = "nil"

\* C9 amended: relay returns nil exactly when the first termination event
\* its watcher records is a direction's EOF.  With the context live that is
\* the error of the direction that terminated first: EOF gives nil, any
\* other error is returned as it is, even when the other direction later
\* ends with EOF; after a cancellation relay may return the context's error
\* instead.
C9_FirstRecordedEventDecides ==
    rpc = "returned" =>
        /\ Len(errLog) = 2
        /\ relayRet # "EOF"
        /\ relayRet \in {"nil", "canceled", errLog[1]}
        /\ relayRet = "nil" => errLog[1] = "EOF"
        /\ relayRet = "canceled" => ctx = "cancelled"
        /\ ctx = "live" => relayRet = (IF errLog[1] = "EOF" THEN "nil" ELSE errLog[1])

\* the first direction ended with EOF, the second with a timeout, the
\* context was never cancelled, and relay returned nil
C9_Witness ==
    /\ rpc = "returned"
    /\ ctx = "live"
    /\ errLog = <<"EOF", "timeout">>
    /\ relayRet = "nil"

\* C10: in each direction the bytes written are at every moment a prefix of
\* the bytes read, and every chunk read, also one that came with EOF or a
\* read error, is written before the direction terminates unless the write
\* itself fails.
C10_InOrderDelivery ==
    \A d \in Directions :
        /\ IsPrefix(dstLog[d], srcLog[d])
        /\ dpc[d] = "read" => dstLog[d] = srcLog[d]
        /\ dpc[d] = "write" => srcLog[d] = dstLog[d] \o buf[d]
        /\ (dpc[d] = "done" /\ dret[d] \in ReadErrors) => dstLog[d] = srcLog[d]
        /\ (dpc[d] = "done" /\ dstLog[d] # srcLog[d]) => dret[d] \in WriteErrors \cup {"short"}

\* a direction read three bytes, the last chunk together with EOF, wrote
\* them all and terminated with EOF
C10_Witness ==
    /\ dpc[1] = "done"
    /\ dret[1] = "EOF"
    /\ eRead[1] = "EOF"
    /\ buf[1] # << >>
    /\ dstLog[1] = <<1, 2, 3>>

Started == {d \in Directions : dpc[d] # "start"}
Finished == {d \in Directions : dpc[d] = "done"}

\* C25: each direction rents one buffer when it starts and has returned it
\* when it has ended, whichever way it ended (EOF, read error, write error,
\* short write), never more than once; when relay has returned, as many
\* buffers were returned as were rented.
C25_BuffersReturned ==
    /\ pool.rented = Cardinality(Started)
    /\ pool.returned = Cardinality(Finished)
    /\ \A d \in Finished : dret[d] \in ReadErrors \cup WriteErrors \cup {"short"}
    /\ rpc = "returned" =>
          pool.rented = pool.returned /\ pool.rented = Cardinality(Directions)

\* relay has returned after one direction ended with a short write and the
\* other with a read error
C25_Witness ==
    /\ rpc = "returned"
    /\ dret[1] = "short"
    /\ dret[2] = "timeout"
    /\ pool = [rented |-> 2, returned |-> 2]

\* C26: relay returns only when the watcher and both pumps have finished;
\* at most two errors are ever sent into errCh, which never holds as many
\* values as its capacity, so no send blocks; once relay has closed the
\* endpoints nothing is read from or written to them; relay closes each
\* endpoint once, when it returns.
C26_ReturnsAfterGoroutines ==
    [][/\ rpc' = "returned" =>
             /\ wpc' = "done"
             /\ \A d \in Directions : dpc'[d] = "done"
             /\ \A e \in Directions : closed'[e] = 1
       /\ rpc' = "running" => \A e \in Directions : closed'[e] = 0
       /\ Len(errLog') <= Cardinality(Directions)
       /\ Len(errCh') <= Len(errLog')
       /\ Len(errLog') < ErrChCap
       /\ (\E e \in Directions : closed[e] > 0) =>
             UNCHANGED <<srcLog, dstLog, buf, eRead, dpc, wpc, errCh>>]_vars

\* relay has returned after a cancellation took the watcher: both pumps sent
\* their error and nobody received either
C26_Witness ==
    /\ rpc = "returned"
    /\ rerr = "canceled"
    /\ Len(errCh) = 2
    /\ \A d \in Directions : dpc[d] = "done" /\ closed[d] = 1

(***************************************************************************)
(* The resource maps and ClearUnusedResource (the reaper)                   *)
(***************************************************************************)

Present(i) == udpAssociation[i].present
PresentAssocs == {i \in AssocIDs : Present(i)}
PresentBacklogs == {b \in BindAddrs : backlogWorker[b] # "none"}

\* the address pair association i binds: the associations of the model bind
\* pairwise different pairs
PairOf(i) == i

\* the UDP ASSOCIATE handler records {pair -> id} and {id -> association};
\* the pair must not be reserved and the id must be fresh
RegisterAssoc(i, p) ==
    /\ ~Present(i)
    /\ i \notin udpOpen
    /\ reservedUdpAddr[p] = 0
    /\ udpAssociation' = [udpAssociation EXCEPT ![i] =
                             [present |-> TRUE, alive |-> TRUE, pair |-> p]]
    /\ reservedUdpAddr' = [reservedUdpAddr EXCEPT ![p] = i]
    /\ udpOpen' = udpOpen \cup {i}
    /\ deadAtTick' = [deadAtTick EXCEPT !.ua = @ \ {i}]
    /\ reaped' = reaped \ {i}
    /\ UNCHANGED <<backlogWorker, reaperPc, reaperCtx, toVisit, curKey, uaPair>>
    /\ UNCHANGED restOfReaper

\* the association's own teardown (control stream closed, context
\* cancelled): it closes its UDP socket, and the association and its
\* reservation go together; an association the reaper has evicted still
\* has its teardown to come
TeardownAssoc(i) ==
    /\ i \in udpOpen
    /\ udpOpen' = udpOpen \ {i}
    /\ udpAssociation' = [udpAssociation EXCEPT ![i] = NoAssoc]
    /\ reservedUdpAddr' = [p \in Pairs |-> IF reservedUdpAddr[p] = i THEN 0
                                           ELSE reservedUdpAddr[p]]
    /\ deadAtTick' = [deadAtTick EXCEPT !.ua = @ \ {i}]
    /\ UNCHANGED <<backlogWorker, reaperPc, reaperCtx, toVisit, curKey, uaPair, reaped>>
    /\ UNCHANGED restOfReaper

\* the association's liveness flag: set on activity, clear when idle
SetAssocAlive(i) ==
    /\ Present(i)
    /\ \E v \in BOOLEAN :
        /\ v # udpAssociation[i].alive
        /\ udpAssociation' = [udpAssociation EXCEPT ![i].alive = v]
        /\ deadAtTick' = IF v THEN [deadAtTick EXCEPT !.ua = @ \ {i}] ELSE deadAtTick
    /\ UNCHANGED <<backlogWorker, reservedUdpAddr, reaperPc, reaperCtx, toVisit, curKey, uaPair,
                   reaped>>
    /\ UNCHANGED udpOpen
    /\ UNCHANGED restOfReaper

\* the BIND handler registers a backlog worker under its listen address
RegisterBacklog(b) ==
    /\ backlogWorker[b] = "none"
    /\ backlogWorker' = [backlogWorker EXCEPT ![b] = "alive"]
    /\ deadAtTick' = [deadAtTick EXCEPT !.bl = @ \ {b}]
    /\ UNCHANGED <<reservedUdpAddr, udpAssociation, reaperPc, reaperCtx, toVisit, curKey, uaPair,
                   reaped>>
    /\ UNCHANGED udpOpen
    /\ UNCHANGED restOfReaper

\* the backlog worker's liveness flag: set when it accepts or serves
SetBacklogAlive(b) ==
    /\ backlogWorker[b] # "none"
    /\ backlogWorker' = [backlogWorker EXCEPT ![b] = IF @ = "alive" THEN "dead" ELSE "alive"]
    /\ deadAtTick' = IF backlogWorker[b] = "dead"
                     THEN [deadAtTick EXCEPT !.bl = @ \ {b}] ELSE deadAtTick
    /\ UNCHANGED <<reservedUdpAddr, udpAssociation, reaperPc, reaperCtx, toVisit, curKey, uaPair,
                   reaped>>
    /\ UNCHANGED udpOpen
    /\ UNCHANGED restOfReaper

\* lines 529-532 and 537-540: the Range callback deletes the entry it
\* visits unless its alive flag is set
ReapAlways(alive) == TRUE
ShouldReap(alive) == ~alive

\* lines 520-526: the ticker fires; the worker starts to range backlogWorker
ReaperTick ==
    /\ reaperPc = "wait"
    /\ reaperPc' = "backlog"
    /\ toVisit' = PresentBacklogs
    /\ deadAtTick' = [bl |-> {b \in BindAddrs : backlogWorker[b] = "dead"},
                      ua |-> {i \in PresentAssocs : ~udpAssociation[i].alive}]
    /\ UNCHANGED <<backlogWorker, reservedUdpAddr, udpAssociation, reaperCtx, curKey, uaPair, reaped>>
    /\ UNCHANGED udpOpen
    /\ UNCHANGED restOfReaper

\* lines 522-524: the context is done while the reaper waits
ReaperStop ==
    /\ reaperPc = "wait"
    /\ reaperCtx = "cancelled"
    /\ reaperPc' = "stopped"
    /\ UNCHANGED <<backlogWorker, reservedUdpAddr, udpAssociation, reaperCtx, toVisit,
                   curKey, uaPair, deadAtTick, reaped>>
    /\ UNCHANGED udpOpen
    /\ UNCHANGED restOfReaper

\* the caller cancels the context given to ClearUnusedResource (line 516)
CancelReaper ==
    /\ reaperPc \notin {"idle", "stopped"}
    /\ reaperCtx = "live"
    /\ reaperCtx' = "cancelled"
    /\ UNCHANGED <<backlogWorker, reservedUdpAddr, udpAssociation, reaperPc, toVisit,
                   curKey, uaPair, deadAtTick, reaped>>
    /\ UNCHANGED udpOpen
    /\ UNCHANGED restOfReaper

\* lines 527-531: the callback of backlogWorker.Range reads bl.alive
ReaperVisitBacklog(b) ==
    /\ reaperPc = "backlog"
    /\ b \in toVisit
    /\ toVisit' = toVisit \ {b}
    /\ IF backlogWorker[b] # "none" /\ ShouldReap(backlogWorker[b] = "alive")
       THEN reaperPc' = "blDelete" /\ curKey' = b
       ELSE UNCHANGED <<reaperPc, curKey>>
    /\ UNCHANGED <<backlogWorker, reservedUdpAddr, udpAssociation, reaperCtx, uaPair,
                   deadAtTick, reaped>>
    /\ UNCHANGED udpOpen
    /\ UNCHANGED restOfReaper

\* line 532: s.backlogWorker.Delete(key)
ReaperDeleteBacklog ==
    /\ reaperPc = "blDelete"
    /\ backlogWorker' = [backlogWorker EXCEPT ![curKey] = "none"]
    /\ deadAtTick' = [deadAtTick EXCEPT !.bl = @ \ {curKey}]
    /\ curKey' = 0
    /\ reaperPc' = "backlog"
    /\ UNCHANGED <<reservedUdpAddr, udpAssociation, reaperCtx, toVisit, uaPair, reaped>>
    /\ UNCHANGED udpOpen
    /\ UNCHANGED restOfReaper

\* line 535: backlogWorker.Range is over, udpAssociation.Range starts
ReaperRangeAssoc ==
    /\ reaperPc = "backlog"
    /\ toVisit = {}
    /\ reaperPc' = "assoc"
    /\ toVisit' = PresentAssocs
    /\ UNCHANGED <<backlogWorker, reservedUdpAddr, udpAssociation, reaperCtx, curKey, uaPair,
                   deadAtTick, reaped>>
    /\ UNCHANGED udpOpen
    /\ UNCHANGED restOfReaper

\* lines 535-539: the callback of udpAssociation.Range reads ua.alive
ReaperVisitAssoc(i) ==
    /\ reaperPc = "assoc"
    /\ i \in toVisit
    /\ toVisit' = toVisit \ {i}
    /\ IF Present(i) /\ ShouldReap(udpAssociation[i].alive)
       THEN /\ reaperPc' = "uaDelete"
            /\ curKey' = i
            /\ uaPair' = udpAssociation[i].pair
       ELSE UNCHANGED <<reaperPc, curKey, uaPair>>
    /\ UNCHANGED <<backlogWorker, reservedUdpAddr, udpAssociation, reaperCtx, deadAtTick,
                   reaped>>
    /\ UNCHANGED udpOpen
    /\ UNCHANGED restOfReaper

\* line 540: s.udpAssociation.Delete(key)
ReaperDeleteAssoc ==
    /\ reaperPc = "uaDelete"
    /\ udpAssociation' = [udpAssociation EXCEPT ![curKey] = NoAssoc]
    /\ deadAtTick' = [deadAtTick EXCEPT !.ua = @ \ {curKey}]
    /\ reaped' = reaped \cup {curKey}
    /\ curKey' = 0
    /\ reaperPc' = "unreserve"
    /\ UNCHANGED <<backlogWorker, reservedUdpAddr, reaperCtx, toVisit, uaPair>>
    /\ UNCHANGED udpOpen
    /\ UNCHANGED restOfReaper

\* line 541: s.reservedUdpAddr.Delete(ua.pair)
ReaperUnreserve ==
    /\ reaperPc = "unreserve"
    /\ reservedUdpAddr' = [reservedUdpAddr EXCEPT ![uaPair] = 0]
    /\ uaPair' = 0
    /\ reaperPc' = "assoc"
    /\ UNCHANGED <<backlogWorker, udpAssociation, reaperCtx, toVisit, curKey, deadAtTick,
                   reaped>>
    /\ UNCHANGED udpOpen
    /\ UNCHANGED restOfReaper

\* lines 542-544: udpAssociation.Range is over; back to the select
ReaperSweepDone ==
    /\ reaperPc = "assoc"
    /\ toVisit = {}
    /\ reaperPc' = "wait"
    /\ UNCHANGED <<backlogWorker, reservedUdpAddr, udpAssociation, reaperCtx, toVisit,
                   curKey, uaPair, deadAtTick, reaped>>
    /\ UNCHANGED udpOpen
    /\ UNCHANGED restOfReaper

\* ClearUnusedResource has been called on a new worker and waits in its select
InitReaper ==
    /\ ServeIdle
    /\ RelayIdle
    /\ FnIdle
    /\ backlogWorker = [b \in BindAddrs |-> "none"]
    /\ reservedUdpAddr = [p \in Pairs |-> 0]
    /\ udpAssociation = [i \in AssocIDs |-> NoAssoc]
    /\ reaperPc = "wait"
    /\ reaperCtx = "live"
    /\ toVisit = {}
    /\ curKey = 0
    /\ uaPair = 0
    /\ deadAtTick = [bl |-> {}, ua |-> {}]
    /\ reaped = {}
    /\ udpOpen = {}

NextReaper ==
    \/ \E i \in AssocIDs : RegisterAssoc(i, PairOf(i))
    \/ \E i \in AssocIDs : TeardownAssoc(i)
    \/ \E i \in AssocIDs : SetAssocAlive(i)
    \/ \E b \in BindAddrs : RegisterBacklog(b)
    \/ \E b \in BindAddrs : SetBacklogAlive(b)
    \/ ReaperTick
    \/ ReaperStop
    \/ CancelReaper
    \/ \E b \in BindAddrs : ReaperVisitBacklog(b)
    \/ ReaperDeleteBacklog
    \/ ReaperRangeAssoc
    \/ \E i \in AssocIDs : ReaperVisitAssoc(i)
    \/ ReaperDeleteAssoc
    \/ ReaperUnreserve
    \/ ReaperSweepDone

SpecReaper == InitReaper /\ [][NextReaper]_vars

\* C11: in every state a reservation is present exactly when the association
\* that owns it is registered (and then names that association), so after a
\* teardown, reaper eviction included, neither entry remains.
C11_ReservationIffAssociation ==
    /\ \A p \in Pairs :
        reservedUdpAddr[p] # 0 =>
            /\ Present(reservedUdpAddr[p])
            /\ udpAssociation[reservedUdpAddr[p]].pair = p
    /\ \A i \in AssocIDs :
        Present(i) => reservedUdpAddr[udpAssociation[i].pair] = i

\* C12: a Range callback of the reaper that visits an entry whose alive flag
\* is false goes on to delete that entry, and one that visits an entry whose
\* alive flag is true leaves it untouched; an entry that was dead at a tick
\* and has stayed dead is no longer in its map at the next tick.
C12_SweepReapsExactlyTheDead ==
    [][ /\ \A i \in AssocIDs :
            (reaperPc = "assoc" /\ i \in toVisit /\ i \notin toVisit' /\ Present(i)) =>
                IF udpAssociation[i].alive
                THEN udpAssociation' = udpAssociation /\ reaperPc' = "assoc"
                ELSE reaperPc' = "uaDelete" /\ curKey' = i
        /\ (reaperPc = "uaDelete" /\ reaperPc' # "uaDelete") =>
                ~udpAssociation'[curKey].present
        /\ \A b \in BindAddrs :
            (reaperPc = "backlog" /\ b \in toVisit /\ b \notin toVisit'
                /\ backlogWorker[b] # "none") =>
                IF backlogWorker[b] = "alive"
                THEN backlogWorker' = backlogWorker /\ reaperPc' = "backlog"
                ELSE reaperPc' = "blDelete" /\ curKey' = b
        /\ (reaperPc = "blDelete" /\ reaperPc' # "blDelete") =>
                backlogWorker'[curKey] = "none"
        /\ (reaperPc = "wait" /\ reaperPc' = "backlog") =>
                /\ deadAtTick.ua \cap PresentAssocs = {}
                /\ deadAtTick.bl \cap PresentBacklogs = {}
      ]_vars

\* a sweep is over in which the reaper deleted a dead association and kept a
\* live one, with a live backlog worker kept as well
C12_Witness ==
    /\ reaperPc = "wait"
    /\ reaped # {}
    /\ \E i \in AssocIDs : Present(i) /\ udpAssociation[i].alive /\ i \notin reaped
    /\ \E b \in BindAddrs : backlogWorker[b] = "alive"

\* C22: once a sweep of the reaper is over, no association it evicted has
\* its UDP socket open: the eviction closed the socket along with removing
\* the association and its reservation.
C22_EvictionClosesSocket ==
    reaperPc = "wait" =>
        \A i \in reaped :
            /\ i \notin udpOpen
            /\ ~Present(i)
            /\ \A p \in Pairs : reservedUdpAddr[p] # i

(***************************************************************************)
(* The functions of one input, each called once: from "call" to "done"      *)
(***************************************************************************)
\* ErrVersionMismatch.Version is one byte
Bytes == 0 .. 255

\* calls of ReplyVersionSpecificError(ctx, ver, conn)
VersionCalls == [fn : {"version"}, ver : Bytes]

\* lines 166-185: one Write of the reply chosen by ver.Version, then the
\* deferred conn.Close()
ReplyVersionSpecificError ==
    /\ fnPc = "call"
    /\ fnCall.fn = "version"
    /\ fnOut' = [out |-> "return",
                 calls |-> <<[op |-> "Write", data |-> VersionReply(fnCall.ver)],
                             [op |-> "Close", data |-> << >>]>>]
    /\ fnPc' = "done"
    /\ UNCHANGED <<fnCall, fnAssocs>>
    /\ UNCHANGED restOfFn

\* syscall.Errno values a dial fails with: the four the switch names, their
\* Windows forms, and one that stands for every other errno
UnixErrnos == {"ENETUNREACH", "EHOSTUNREACH", "ECONNREFUSED", "ETIMEDOUT"}
WindowsErrnos == {"WSAENETUNREACH", "WSAEHOSTUNREACH", "WSAECONNREFUSED", "WSAETIMEDOUT"}
Errnos == UnixErrnos \cup WindowsErrnos \cup {"EOTHER"}

\* common.ConvertSocketErrno: a Windows socket error code becomes the errno
\* of the same name, any other errno stays
ConvertSocketErrno(errno) ==
    CASE errno = "WSAENETUNREACH" -> "ENETUNREACH"
      [] errno = "WSAEHOSTUNREACH" -> "EHOSTUNREACH"
      [] errno = "WSAECONNREFUSED" -> "ECONNREFUSED"
      [] errno = "WSAETIMEDOUT" -> "ETIMEDOUT"
      [] OTHER -> errno

\* the error values getReplyCode tells apart.  kind: "nil"; "plain", not a
\* net.Error; "net", a net.Error that is no *net.OpError; "op", a
\* *net.OpError whose Err is no *os.SyscallError; "syscall", one whose
\* SyscallError holds no Errno; "errno", one whose SyscallError holds errno.
\* timeout is what netErr.Timeout() answers.
NilError == [kind |-> "nil", timeout |-> FALSE, errno |-> "none"]
DialErrors ==
    {NilError}
    \cup [kind : {"plain"}, timeout : {FALSE}, errno : {"none"}]
    \cup [kind : {"net", "op", "syscall"}, timeout : BOOLEAN, errno : {"none"}]
    \cup [kind : {"errno"}, timeout : BOOLEAN, errno : Errnos]

\* utils.go lines 134-172
getReplyCode(err) ==
    IF err.kind = "nil" THEN OperationReplySuccess
    ELSE IF err.kind = "plain" THEN OperationReplyServerFailure
    ELSE IF err.timeout THEN OperationReplyTimeout
    ELSE IF err.kind = "net" THEN OperationReplyServerFailure
    ELSE IF err.kind = "errno"
    THEN CASE ConvertSocketErrno(err.errno) = "ENETUNREACH" -> OperationReplyNetworkUnreachable
           [] ConvertSocketErrno(err.errno) = "EHOSTUNREACH" -> OperationReplyHostUnreachable
           [] ConvertSocketErrno(err.errno) = "ECONNREFUSED" -> OperationReplyConnectionRefused
           [] ConvertSocketErrno(err.errno) = "ETIMEDOUT" -> OperationReplyTimeout
           [] OTHER -> OperationReplyServerFailure
    ELSE OperationReplyServerFailure

\* what happened to the dial, and the error value Dial reports it with.  An
\* expired TTL reaches the dialer as an ICMP time-exceeded error, for which
\* there is no errno of its own: it arrives as host unreachable or as some
\* other errno.
DialClasses == {"success", "timeout", "netUnreachable", "hostUnreachable",
                "connectionRefused", "ttlExpired", "other"}
ErrorsOf(class) ==
    CASE class = "success" -> {NilError}
      [] class = "timeout" ->
            {e \in DialErrors : e.kind \in {"net", "op", "syscall", "errno"} /\ e.timeout}
            \cup {e \in DialErrors : ~e.timeout /\ e.errno \in {"ETIMEDOUT", "WSAETIMEDOUT"}}
      [] class = "netUnreachable" ->
            {e \in DialErrors : ~e.timeout /\ e.errno \in {"ENETUNREACH", "WSAENETUNREACH"}}
      [] class = "hostUnreachable" ->
            {e \in DialErrors : ~e.timeout /\ e.errno \in {"EHOSTUNREACH", "WSAEHOSTUNREACH"}}
      [] class = "connectionRefused" ->
            {e \in DialErrors : ~e.timeout /\ e.errno \in {"ECONNREFUSED", "WSAECONNREFUSED"}}
      [] class = "ttlExpired" ->
            {e \in DialErrors :
                ~e.timeout /\ e.errno \in {"EHOSTUNREACH", "WSAEHOSTUNREACH", "EOTHER"}}
      [] OTHER ->
            {e \in DialErrors : ~e.timeout /\ e.kind # "nil" /\ e.errno \in {"none", "EOTHER"}}

\* calls of getReplyCode(err) on the outcome of a dial
DialCalls == {c \in [fn : {"getReplyCode"}, class : DialClasses, err : DialErrors] :
                c.err \in ErrorsOf(c.class)}

\* one call of getReplyCode
GetReplyCode ==
    /\ fnPc = "call"
    /\ fnCall.fn = "getReplyCode"
    /\ fnOut' = [out |-> "return", code |-> getReplyCode(fnCall.err)]
    /\ fnPc' = "done"
    /\ UNCHANGED <<fnCall, fnAssocs>>
    /\ UNCHANGED restOfFn

\* the ver argument of ForwardICMP: 4, 6, or 0 for any other value
IPVersions == {4, 6, 0}
\* msg.Type, by the names of the ipv4 and ipv6 packages; "Other" is every
\* type the switch does not name; ICMPv4 has no packet-too-big type
ICMPTypes(ver) ==
    IF ver = 6 THEN {"DestinationUnreachable", "TimeExceeded", "PacketTooBig", "Other"}
    ELSE {"DestinationUnreachable", "TimeExceeded", "Other"}
ICMPCodes == 0 .. MaxIcmpCode
Addrs == 1 .. MaxAddr

\* the Go type of msg.Body in a message that icmp.ParseMessage returns
BodyType(type) ==
    CASE type = "DestinationUnreachable" -> "*icmp.DstUnreach"
      [] type = "TimeExceeded" -> "*icmp.TimeExceeded"
      [] type = "PacketTooBig" -> "*icmp.PacketTooBig"
      [] OTHER -> "*icmp.RawBody"

\* the Data of the body: the IP header of the datagram the error is about
\* (a UDP datagram or not, with its source address), or bytes that are none
EmbeddedHeaders == [kind : {"udp", "tcp"}, src : Addrs] \cup {[kind |-> "bad", src |-> 0]}
NilHeader == [kind |-> "nil", src |-> 0]
EmptyHeader == [kind |-> "empty", src |-> 0]
NoUDPError == "0"

\* m2 := msg.Body.(*T); hdr = m2.Data: the assertion panics when the body
\* is of another type
AssertBody(msg, T) ==
    IF BodyType(msg.type) = T THEN [panic |-> FALSE, data |-> msg.data]
    ELSE [panic |-> TRUE, data |-> NilHeader]

\* convertICMPError's results (code, reporter, hdr), or its panic
Ignored == [panic |-> FALSE, code |-> NoUDPError, reporter |-> 0, hdr |-> NilHeader]
Converted(code, ver, body) ==
    IF body.panic THEN [panic |-> TRUE, code |-> NoUDPError, reporter |-> 0, hdr |-> NilHeader]
    ELSE [panic |-> FALSE, code |-> code, reporter |-> ver, hdr |-> body.data]

\* line 239: the type the body of a v6 packet-too-big message is asserted to be
PacketTooBigBody == "*icmp.TimeExceeded"

\* utils.go lines 174-244
convertICMPError(msg, ver) ==
    IF ver = 4
    THEN CASE msg.type = "DestinationUnreachable" ->
                  IF msg.code = 0
                  THEN Converted("UDPErrorNetworkUnreachable", 4, AssertBody(msg, "*icmp.DstUnreach"))
                  ELSE IF msg.code = 1
                  THEN Converted("UDPErrorHostUnreachable", 4, AssertBody(msg, "*icmp.DstUnreach"))
                  ELSE Ignored
           [] msg.type = "TimeExceeded" ->
                  IF msg.code = 0
                  THEN Converted("UDPErrorTTLExpired", 4, AssertBody(msg, "*icmp.TimeExceeded"))
                  ELSE Ignored
           [] OTHER -> [panic |-> FALSE, code |-> NoUDPError, reporter |-> 4, hdr |-> EmptyHeader]
    ELSE IF ver = 6
    THEN CASE msg.type = "DestinationUnreachable" ->
                  IF msg.code = 0
                  THEN Converted("UDPErrorNetworkUnreachable", 6, AssertBody(msg, "*icmp.DstUnreach"))
                  ELSE IF msg.code = 3
                  THEN Converted("UDPErrorHostUnreachable", 6, AssertBody(msg, "*icmp.DstUnreach"))
                  ELSE Ignored
           [] msg.type = "TimeExceeded" ->
                  IF msg.code = 0
                  THEN Converted("UDPErrorTTLExpired", 6, AssertBody(msg, "*icmp.TimeExceeded"))
                  ELSE Ignored
           [] msg.type = "PacketTooBig" ->
                  Converted("UDPErrorDatagramTooBig", 6, AssertBody(msg, PacketTooBigBody))
           [] OTHER -> [panic |-> FALSE, code |-> NoUDPError, reporter |-> 6, hdr |-> EmptyHeader]
    ELSE [panic |-> FALSE, code |-> NoUDPError, reporter |-> 0, hdr |-> EmptyHeader]

\* nt.ParseSrcDstAddrFromIPHeader: the source address and the protocol of an
\* IP header; bytes that are no IP header (none at all included) are an error
ParseSrcDstAddrFromIPHeader(hdr) ==
    CASE hdr.kind = "udp" -> [err |-> FALSE, src |-> hdr.src, proto |-> 17]
      [] hdr.kind = "tcp" -> [err |-> FALSE, src |-> hdr.src, proto |-> 6]
      [] OTHER -> [err |-> TRUE, src |-> 0, proto |-> 0]

\* an entry of s.udpAssociation as ForwardICMP looks at it: the
\* association's icmpOn and the address of ua.udp.LocalAddr()
UAs == [present : {TRUE}, icmpOn : BOOLEAN, addr : Addrs]
IcmpAssocs == [AssocIDs -> UAs \cup {NoUA}]

\* serverworker.go lines 453-465: the associations handleIcmpDown is called on
IcmpTargets(assocs, src) ==
    {i \in AssocIDs : assocs[i].present /\ assocs[i].icmpOn /\ assocs[i].addr = src}

\* calls of ForwardICMP(ctx, msg, ip, ver)
IcmpCalls ==
    {c \in [fn : {"ForwardICMP"}, ver : IPVersions,
            msg : [type : ICMPTypes(6), code : ICMPCodes, data : EmbeddedHeaders]] :
        c.msg.type \in ICMPTypes(c.ver)}

\* serverworker.go lines 439-453: ForwardICMP up to the call of Range, which
\* has every key of the map still to visit
ForwardICMP ==
    /\ fnPc = "call"
    /\ fnCall.fn = "ForwardICMP"
    /\ LET conv == convertICMPError(fnCall.msg, fnCall.ver)
           ip == ParseSrcDstAddrFromIPHeader(conv.hdr)
       IN  IF conv.panic
           THEN /\ fnOut' = [out |-> "panic", conv |-> conv, delivered |-> {}, todo |-> {}]
                /\ fnPc' = "done"
           ELSE IF conv.hdr = NilHeader \/ ip.err \/ ip.proto # 17
           THEN /\ fnOut' = [out |-> "return", conv |-> conv, delivered |-> {}, todo |-> {}]
                /\ fnPc' = "done"
           ELSE /\ fnOut' = [out |-> "range", conv |-> conv, delivered |-> {},
                             todo |-> AssocIDs]
                /\ fnPc' = "range"
    /\ UNCHANGED <<fnCall, fnAssocs>>
    /\ UNCHANGED restOfFn

\* serverworker.go lines 453-465: Range comes to key i; when the map holds
\* an entry under it the callback runs on that entry.  After the last key
\* Range and ForwardICMP return.
IcmpRangeVisit(i) ==
    /\ fnPc = "range"
    /\ i \in fnOut.todo
    /\ LET src == ParseSrcDstAddrFromIPHeader(fnOut.conv.hdr).src
           hit == IcmpTargets(fnAssocs, src) \cap {i}
           last == fnOut.todo = {i}
       IN  /\ fnOut' = [fnOut EXCEPT
                          !.delivered = @ \cup {[id |-> j, code |-> fnOut.conv.code,
                                                 reporter |-> fnOut.conv.reporter] : j \in hit},
                          !.todo = @ \ {i},
                          !.out = IF last THEN "return" ELSE @]
           /\ fnPc' = IF last THEN "done" ELSE "range"
    /\ UNCHANGED <<fnCall, fnAssocs>>
    /\ UNCHANGED restOfFn

\* meanwhile another goroutine (the reaper at line 540, a teardown) deletes
\* the association under id i
AssocDeleted(i) ==
    /\ fnPc \in {"range", "loop"}
    /\ fnAssocs[i].present
    /\ fnAssocs' = [fnAssocs EXCEPT ![i] = NoUA]
    /\ UNCHANGED <<fnPc, fnCall, fnOut>>
    /\ UNCHANGED restOfFn

\* meanwhile a UDP ASSOCIATE handler stores a new association under id i
AssocStored(i) ==
    /\ fnPc = "range"
    /\ ~fnAssocs[i].present
    /\ \E ua \in UAs : fnAssocs' = [fnAssocs EXCEPT ![i] = ua]
    /\ UNCHANGED <<fnPc, fnCall, fnOut>>
    /\ UNCHANGED restOfFn

\* the keys of s.udpAssociation
Registered == {i \in AssocIDs : fnAssocs[i].present}

\* the datagrams a source yields before its NextDatagram fails
DatagramSeqs(n) == UNION {[1 .. k -> Datagrams] : k \in 0 .. n}

\* calls of ServeDatagram(ctx, dgram) and ServeSeqPacket(ctx, dgramSrc)
DatagramCalls ==
    [fn : {"ServeDatagram"}, dgrams : [1 .. 1 -> Datagrams],
     verHandler : BOOLEAN, nilPanics : BOOLEAN]
    \cup [fn : {"ServeSeqPacket"}, dgrams : DatagramSeqs(MaxDgram),
          verHandler : BOOLEAN, nilPanics : BOOLEAN]
\* the maps these calls start on: an id is registered or not
DatagramAssocs == [AssocIDs -> {NoUA, [present |-> TRUE, icmpOn |-> FALSE, addr |-> 1]}]

\* serverworker.go lines 408-418: one call of ServeDatagram
ServeDatagram ==
    /\ fnPc = "call"
    /\ fnCall.fn = "ServeDatagram"
    /\ fnOut' = ServedFirst(Registered, fnCall.dgrams[1], fnCall.verHandler, fnCall.nilPanics)
    /\ fnPc' = "done"
    /\ UNCHANGED <<fnCall, fnAssocs>>
    /\ UNCHANGED restOfFn

\* serverworker.go lines 373-386: ServeSeqPacket up to its loop; NextDatagram
\* fails when the source has no datagram
ServeSeqPacket ==
    /\ fnPc = "call"
    /\ fnCall.fn = "ServeSeqPacket"
    /\ IF Len(fnCall.dgrams) = 0
       THEN /\ fnOut' = [out |-> "return", uplink |-> << >>, verr |-> FALSE,
                         assoc |-> NilUA, registeredAt |-> << >>, k |-> 1]
            /\ fnPc' = "done"
       ELSE LET served == ServedFirst(Registered, fnCall.dgrams[1], fnCall.verHandler,
                                      fnCall.nilPanics) IN
            IF served.out = "panic"
            THEN /\ fnOut' = served
                 /\ fnPc' = "done"
            ELSE /\ fnOut' = [served EXCEPT !.out = "loop"]
                 /\ fnPc' = "loop"
    /\ UNCHANGED <<fnCall, fnAssocs>>
    /\ UNCHANGED restOfFn

\* serverworker.go lines 389-404: one turn of the loop of ServeSeqPacket:
\* NextDatagram fails or the datagram does not parse, and the call returns;
\* or the datagram goes to handleUdpUp of the first datagram's association
SeqPacketNext ==
    /\ fnPc = "loop"
    /\ LET k == fnOut.k IN
       IF k > Len(fnCall.dgrams) \/ fnCall.dgrams[k].kind # "ok"
       THEN /\ fnOut' = [fnOut EXCEPT !.out = "return"]
            /\ fnPc' = "done"
       ELSE LET up == handleUdpUp(fnOut.assoc, fnCall.dgrams[k].id, fnCall.nilPanics) IN
            /\ fnOut' = [fnOut EXCEPT !.uplink = @ \o up.uplink,
                                      !.registeredAt = Append(@, fnOut.assoc \in Registered),
                                      !.k = k + 1,
                                      !.out = IF up.out = "panic" THEN "panic" ELSE @]
            /\ fnPc' = IF up.out = "panic" THEN "done" ELSE "loop"
    /\ UNCHANGED <<fnCall, fnAssocs>>
    /\ UNCHANGED restOfFn

InitFn ==
    /\ ServeIdle
    /\ RelayIdle
    /\ ReaperIdle
    /\ fnPc = "call"
    /\ fnCall \in VersionCalls \cup DialCalls \cup IcmpCalls \cup DatagramCalls
    /\ fnAssocs \in IF fnCall.fn = "ForwardICMP" THEN IcmpAssocs
                    ELSE IF fnCall.fn \in {"ServeDatagram", "ServeSeqPacket"}
                    THEN DatagramAssocs
                    ELSE {[i \in AssocIDs |-> NoUA]}
    /\ fnOut = NoOut

NextFn ==
    \/ ReplyVersionSpecificError
    \/ GetReplyCode
    \/ ForwardICMP
    \/ \E i \in AssocIDs : IcmpRangeVisit(i)
    \/ ServeDatagram
    \/ ServeSeqPacket
    \/ SeqPacketNext
    \/ \E i \in AssocIDs : AssocDeleted(i)
    \/ \E i \in AssocIDs : AssocStored(i)

SpecFn == InitFn /\ [][NextFn]_vars

\* reading an HTTP reply back from its bytes
MinOf(S) == CHOOSE x \in S : \A y \in S : x <= y
CRLFAt(b) == {i \in 1 .. Len(b) - 1 : b[i] = 13 /\ b[i + 1] = 10}
StatusLineOf(b) == SubSeq(b, 1, MinOf(CRLFAt(b)) - 1)
\* the CRLF that ends the last header line; an empty line follows it
EndOfHeaders(b) == MinOf({i \in CRLFAt(b) : i + 2 \in CRLFAt(b)})
BodyOf(b) == SubSeq(b, EndOfHeaders(b) + 4, Len(b))
\* the header lines, each from its first byte to the byte before its CRLF
HeaderLines(b) ==
    {SubSeq(b, i + 2, MinOf({j \in CRLFAt(b) : j > i}) - 1) :
        i \in {k \in CRLFAt(b) : k < EndOfHeaders(b)}}
StartsWith(line, name) == Len(line) >= Len(name) /\ SubSeq(line, 1, Len(name)) = name
RECURSIVE ParseDecimal(_)
ParseDecimal(d) ==
    IF Len(d) = 0 THEN 0
    ELSE 10 * ParseDecimal(SubSeq(d, 1, Len(d) - 1)) + (d[Len(d)] - 48)
\* "Content-Length: "
ContentLengthName == <<67, 111, 110, 116, 101, 110, 116, 45, 76, 101, 110, 103, 116, 104, 58, 32>>
\* the values of the Content-Length headers of a reply
ContentLengthsOf(b) ==
    {ParseDecimal(SubSeq(l, Len(ContentLengthName) + 1, Len(l))) :
        l \in {h \in HeaderLines(b) : StartsWith(h, ContentLengthName)}}
\* "HTTP/1.0 500 Internal Server Error"
ExpectedStatusLine ==
    <<72, 84, 84, 80, 47, 49, 46, 48, 32, 53, 48, 48, 32, 73, 110, 116, 101, 114, 110, 97,
      108, 32, 83, 101, 114, 118, 101, 114, 32, 69, 114, 114, 111, 114>>
\* C, D, G, H, O, P, T and their lower-case forms
ExpectedHttpBytes == {67, 68, 71, 72, 79, 80, 84} \cup {99, 100, 103, 104, 111, 112, 116}

\* C14: ReplyVersionSpecificError writes exactly one reply and then closes the
\* connection; the reply is {0x00, 0x5B} for first byte 4, {0x05, 0xFF} for 5,
\* {0x06} for 6, for each of C, D, G, H, O, P, T in either case an HTTP reply
\* whose status line is exactly "HTTP/1.0 500 Internal Server Error" and whose
\* one Content-Length header equals the length of its body, and {0x06} for
\* every other byte.
C14_VersionReply ==
    (fnPc = "done" /\ fnCall.fn = "version") =>
        LET ver == fnCall.ver
            calls == fnOut.calls
            reply == calls[1].data
        IN  /\ Len(calls) = 2
            /\ calls[1].op = "Write"
            /\ calls[2].op = "Close"
            /\ IF ver = 4 THEN reply = <<0, 91>>
               ELSE IF ver = 5 THEN reply = <<5, 255>>
               ELSE IF ver \in ExpectedHttpBytes
               THEN /\ StatusLineOf(reply) = ExpectedStatusLine
                    /\ ContentLengthsOf(reply) = {Len(BodyOf(reply))}
                    /\ Len(BodyOf(reply)) > 0
               ELSE reply = <<6>>

\* the call with first byte 'G' has written the HTTP reply and closed
C14_Witness ==
    /\ fnPc = "done"
    /\ fnCall.fn = "version"
    /\ fnCall.ver = 71
    /\ Len(fnOut.calls) = 2
    /\ StatusLineOf(fnOut.calls[1].data) = ExpectedStatusLine

\* the reply code of the CONNECT table for each class of dial outcome
ConnectTable(class) ==
    CASE class = "success" -> OperationReplySuccess
      [] class = "timeout" -> OperationReplyTimeout
      [] class = "netUnreachable" -> OperationReplyNetworkUnreachable
      [] class = "hostUnreachable" -> OperationReplyHostUnreachable
      [] class = "connectionRefused" -> OperationReplyConnectionRefused
      [] class = "ttlExpired" -> OperationReplyTTLExpired
      [] OTHER -> OperationReplyServerFailure

\* C16: getReplyCode maps the outcome of a dial to the reply code of the
\* CONNECT table: no error to Success, timeout to Timeout, network unreachable
\* to NetworkUnreachable, host unreachable to HostUnreachable, connection
\* refused to ConnectionRefused, TTL expired to TTLExpired and every other
\* error to ServerFailure.
C16_ReplyCodeTable ==
    (fnPc = "done" /\ fnCall.fn = "getReplyCode") =>
        fnOut.code = ConnectTable(fnCall.class)

\* the UDP error of the spec's table for (IP version, ICMP type, ICMP code),
\* NoUDPError for a combination the table does not name
IcmpTable(ver, type, code) ==
    CASE ver = 4 /\ type = "DestinationUnreachable" /\ code = 0 -> "UDPErrorNetworkUnreachable"
      [] ver = 4 /\ type = "DestinationUnreachable" /\ code = 1 -> "UDPErrorHostUnreachable"
      [] ver = 4 /\ type = "TimeExceeded" /\ code = 0 -> "UDPErrorTTLExpired"
      [] ver = 6 /\ type = "DestinationUnreachable" /\ code = 0 -> "UDPErrorNetworkUnreachable"
      [] ver = 6 /\ type = "DestinationUnreachable" /\ code = 3 -> "UDPErrorHostUnreachable"
      [] ver = 6 /\ type = "TimeExceeded" /\ code = 0 -> "UDPErrorTTLExpired"
      [] ver = 6 /\ type = "PacketTooBig" -> "UDPErrorDatagramTooBig"
      [] OTHER -> NoUDPError

\* C17: for every (IP version, ICMP type, ICMP code) of the spec's table
\* convertICMPError returns, without failing, the UDP error of the table and
\* the embedded header of the message body; for every other combination no
\* UDP Error message goes to any association.
C17_IcmpTable ==
    (fnPc = "done" /\ fnCall.fn = "ForwardICMP") =>
        LET want == IcmpTable(fnCall.ver, fnCall.msg.type, fnCall.msg.code) IN
        IF want # NoUDPError
        THEN /\ fnOut.out = "return"
             /\ ~fnOut.conv.panic
             /\ fnOut.conv.code = want
             /\ fnOut.conv.hdr = fnCall.msg.data
             /\ \A d \in fnOut.delivered : d.code = want
        ELSE /\ fnOut.out = "return"
             /\ fnOut.delivered = {}

\* C23: a client datagram reaches an uplink only after its association id
\* was found in udpAssociation: every uplink call is made on an association
\* that is registered when the call is made, with a message that carries
\* that association's id, and no call of ServeDatagram or ServeSeqPacket
\* panics; a datagram that does not parse or names no registered association
\* leads to no uplink call.
C23_UplinkOnlyAfterValidation ==
    (fnPc \in {"loop", "done"} /\ fnCall.fn \in {"ServeDatagram", "ServeSeqPacket"}) =>
        /\ fnOut.out # "panic"
        /\ \A k \in 1 .. Len(fnOut.uplink) :
              /\ fnOut.uplink[k].assoc # NilUA
              /\ fnOut.registeredAt[k]
              /\ fnOut.uplink[k].h = fnOut.uplink[k].assoc

\* the ICMP message of the call is one the table maps and the datagram it
\* is about is a UDP datagram
IcmpMappedUDP ==
    /\ IcmpTable(fnCall.ver, fnCall.msg.type, fnCall.msg.code) # NoUDPError
    /\ fnCall.msg.data.kind = "udp"
\* association i is one C24 expects the error to go to
IcmpReceiver(i) ==
    /\ fnAssocs[i].present
    /\ fnAssocs[i].icmpOn
    /\ fnAssocs[i].addr = fnCall.msg.data.src

\* C24: ForwardICMP does not fail; it visits every association when the
\* ICMP message is one of the mapped kinds and the embedded protocol is UDP
\* and none otherwise; an association it visits gets the mapped error when it
\* is registered, has ICMP enabled and its local UDP address is the source
\* address of the embedded IP header, and gets nothing otherwise; no step of
\* ForwardICMP adds or removes an association.
C24_IcmpDelivery ==
    [][fnCall.fn = "ForwardICMP" =>
         /\ fnPc' = "done" => fnOut'.out = "return"
         /\ (fnPc = "call" /\ fnPc' # "call") =>
               /\ fnOut'.delivered = {}
               /\ fnPc' = "range" <=> IcmpMappedUDP
         /\ (fnPc = "range" /\ fnOut' # fnOut) =>
               \E i \in fnOut.todo :
                  /\ fnOut'.todo = fnOut.todo \ {i}
                  /\ fnPc' = "done" <=> fnOut.todo = {i}
                  /\ fnOut'.delivered = fnOut.delivered \cup
                        (IF IcmpReceiver(i)
                         THEN {[id |-> i,
                                code |-> IcmpTable(fnCall.ver, fnCall.msg.type, fnCall.msg.code),
                                reporter |-> fnCall.ver]}
                         ELSE {})
         /\ fnOut' # fnOut => fnAssocs' = fnAssocs
      ]_vars

====
